---- MODULE Spec2Model ----
(***************************************************************************)
(* Model of the packaging and delivery engine of the bot:                  *)
(*   - run_concurrent_tasks (bot/helpers/utils.py): the bounded task       *)
(*     runner, on asyncio's cooperative scheduler;                         *)
(*   - split_zip_folder (bot/helpers/utils.py): the size-bounded packer;   *)
(*   - album_upload / create_simple_zip (bot/helpers/uploader.py);         *)
(*   - download_file (bot/helpers/utils.py): the retrying fetcher;         *)
(*   - send_message / edit_message (bot/helpers/message.py);               *)
(*   - track_upload / music_video_upload (bot/helpers/uploader.py);        *)
(*   - create_link (bot/helpers/utils.py) and rclone_upload                *)
(*     (bot/helpers/uploader.py): link resolution;                         *)
(*   - artist_upload / album_upload / playlist_upload                      *)
(*     (bot/helpers/uploader.py) and zip_handler (bot/helpers/utils.py):   *)
(*     the archive-or-recurse policy;                                      *)
(*   - antiSpam (bot/helpers/message.py): the list of ids in progress;     *)
(*   - run_concurrent_tasks called by the tasks of a run_concurrent_tasks  *)
(*     call;                                                               *)
(*   - the percentages run_concurrent_tasks puts in the status text.       *)
(***************************************************************************)
EXTENDS Integers, Sequences, FiniteSets, TLC

(* ------------------------------ bounds --------------------------------- *)
\* most files in a packed tree (the 12-track album apart)
MaxFiles == 4
\* most tracks of an uploaded album (the 12-track album apart)
MaxTracks == 2
\* most tasks handed to one run_concurrent_tasks call
MaxTasks == 3
\* largest Config.MAX_WORKERS tried
MaxWorkers == 2
\* most rate-limit (FloodWait) answers the transport gives during one run
MaxFloods == 1
\* largest retries argument of download_file tried
MaxRetries == 3
\* most rate-limit (FloodWait) answers to one send_message / edit_message call
MaxSendFloods == 2
\* most albums of an artist
MaxAlbums == 2
\* chat and user ids that call antiSpam
MaxIds == 2
\* most leaf tasks of a nested run, all invocations together
MaxLeaves == 4
\* most tasks of a run whose percentages are computed
MaxTotal == 50

VARIABLES
  \* ---- run_concurrent_tasks ----
  MAX_WORKERS,       \* Config.MAX_WORKERS
  progress_details,  \* TRUE when a progress handle was passed, FALSE for None
  tasks,             \* tasks[i]: the awaitable ti: pending, running, or its outcome
  total,             \* len(tasks)
  completed,         \* the shared counter
  semaphore,         \* asyncio.Semaphore: [value, waiters]
  pc,                \* pc[i]: where run_task(ti) is suspended
  ready,             \* the event loop's FIFO queue of coroutines to resume
  reply,             \* reply[i]: the transport's pending answer to ti's edit
  result,            \* result[i]: what run_task(ti) returned
  outer,             \* the gather future: "pending", "returned" or "raised"
  returned,          \* the list run_concurrent_tasks returned
  shown,             \* the percentages put in the status text, in order
  floods,            \* FloodWait answers given so far
  admitted,          \* the tasks in the order they were let past the gate
  done_order,        \* the tasks in the order run_task finished for them
  \* ---- split_zip_folder ----
  tree,              \* the files of folderpath in os.walk order: their sizes (MiB)
  walk,              \* index in tree of the file the loop visits next
  disk,              \* the files of the tree still present on disk
  zips,              \* the archives on disk: [path, members]
  zip_paths,         \* the list being returned
  part_num,
  current_size,
  current_files,
  pack_pc,           \* "walk", "final" or "returned"
  \* ---- album_upload ----
  UPLOAD_MODE,       \* Config.UPLOAD_MODE
  ALBUM_ZIP,         \* Config.ALBUM_ZIP
  album,             \* the track files under metadata['folderpath']: sizes (MiB)
  alb_files,         \* the track files still on disk
  alb_dir,           \* TRUE while the folder exists
  alb_zips,          \* the archives on disk: [path, members]
  alb_made,          \* every archive created, in order
  alb_sent,          \* the transport calls issued, in order
  alb_links,         \* what rclone_upload returned
  alb_i,             \* the track the "for track in metadata['tracks']" loop is at
  alb_reply,         \* the transport's pending answer
  alb_floods,        \* FloodWait answers given so far
  alb_pc,            \* where album_upload is
  \* ---- download_file ----
  retries,           \* the retries argument
  attempt,           \* the loop variable of "for attempt in range(1, retries + 1)"
  dl_file,           \* what the destination path holds
  dl_log,            \* what each attempt met, in order
  dl_slept,          \* the durations passed to asyncio.sleep, in order
  dl_ret,            \* the value returned
  dl_pc,             \* "get", "sleep" or "returned"
  \* ---- send_message / edit_message ----
  tx_fn,             \* the function called: "send_message" or "edit_message"
  tx_args,           \* its arguments: [itype, item]
  tx_antiflood,      \* the antiflood argument of edit_message
  tx_calls,          \* the calls made on tgclient, in order: their arguments
  tx_replies,        \* the answers of the transport, in order
  tx_slept,          \* the durations passed to asyncio.sleep, in order
  tx_ret,            \* the value returned or the exception raised
  tx_pc,             \* "call", "sleep", "returned" or "raised"
  \* ---- track_upload / music_video_upload ----
  trk_fn,            \* the function called
  trk_cfg,           \* Config.RCLONE_DEST, bot_set.link_options, Config.INDEX_LINK
                     \* and the exit code "rclone link" will give
  trk_file,          \* TRUE while metadata['filepath'] is on disk
  trk_thumb,         \* metadata['thumbnail']: "None", or its file: "present", "gone" once removed
  trk_links,         \* what rclone_upload returned
  trk_exc,           \* the exception that left the call, "None" when none did
  trk_pc,            \* "start", "send", "done" or "raised"
  \* ---- create_link / rclone_upload ----
  lk_fn,             \* the resolver called
  lk_cfg,            \* as trk_cfg
  lk_links,          \* the pair returned
  lk_pc,             \* "start" or "done"
  \* ---- artist_upload / album_upload / playlist_upload / zip_handler ----
  up_fn,             \* the function called
  up_cfg,            \* Config.UPLOAD_MODE and the three ZIP flags
  up_meta,           \* metadata: per album or playlist, its tracks and poster_msg
  up_depth,          \* 1 inside an album_upload called by artist_upload, else 0
  up_a,              \* the album at hand
  up_t,              \* the track at hand
  up_log,            \* what was done so far, in order
  up_floods,         \* FloodWait answers so far
  up_pc,             \* "start", "send_doc", "send_track", "send_text",
                     \* "edit_poster", "returned" or "raised"
  \* ---- antiSpam ----
  anti_spam,         \* bot_set.anti_spam
  current_user,      \* the list of ids with a request in progress
  as_before,         \* current_user before the last call
  as_call,           \* the last call: its arguments, whether its id was in
                     \* the list, and what it returned
  as_prev,           \* the call before the last
  \* ---- run_concurrent_tasks called by the tasks of run_concurrent_tasks ----
  nr_workers,        \* Config.MAX_WORKERS
  nr_total,          \* len(tasks) of the outer call
  nr_children,       \* len(tasks) of each call made by a task
  nr_sem,            \* the semaphore of each invocation
  nr_pc,             \* where each run_task is
  nr_ready,          \* the event loop's FIFO queue of coroutines to resume
  nr_io,             \* the leaf tasks whose I/O is under way
  nr_out,            \* how each coroutine's "await task" ended
  nr_gather,         \* the gather future of each invocation
  nr_queued,         \* the coroutines that had to wait behind a gate
  \* ---- run_task: completed and progress over a long run ----
  pg_total,          \* total = len(tasks)
  pg_completed,      \* completed
  pg_shown           \* the values of progress computed so far, in order

runnerVars == <<MAX_WORKERS, progress_details, tasks, total, completed, semaphore,
                pc, ready, reply, result, outer, returned, shown, floods,
                admitted, done_order>>

packVars == <<tree, walk, disk, zips, zip_paths, part_num, current_size,
              current_files, pack_pc>>

albumVars == <<UPLOAD_MODE, ALBUM_ZIP, album, alb_files, alb_dir, alb_zips, alb_made,
               alb_sent, alb_links, alb_i, alb_reply, alb_floods, alb_pc>>

fetchVars == <<retries, attempt, dl_file, dl_log, dl_slept, dl_ret, dl_pc>>

sendVars == <<tx_fn, tx_args, tx_antiflood, tx_calls, tx_replies, tx_slept, tx_ret,
              tx_pc>>

trackVars == <<trk_fn, trk_cfg, trk_file, trk_thumb, trk_links, trk_exc, trk_pc>>

linkVars == <<lk_fn, lk_cfg, lk_links, lk_pc>>

uploadVars == <<up_fn, up_cfg, up_meta, up_depth, up_a, up_t, up_log, up_floods, up_pc>>

spamVars == <<anti_spam, current_user, as_before, as_call, as_prev>>

nestVars == <<nr_workers, nr_total, nr_children, nr_sem, nr_pc, nr_ready, nr_io,
              nr_out, nr_gather, nr_queued>>

progVars == <<pg_total, pg_completed, pg_shown>>

vars == <<runnerVars, packVars, albumVars, fetchVars, sendVars, trackVars, linkVars,
          uploadVars, spamVars, nestVars, progVars>>

(* ------------------------- helpers on sequences ------------------------ *)
Range(s) == {s[k] : k \in DOMAIN s}

RECURSIVE SumSeq(_)
SumSeq(s) == IF s = <<>> THEN 0 ELSE Head(s) + SumSeq(Tail(s))

(* ----------------- float arithmetic of the percentage ------------------ *)
\* Python computes int((completed / total) * 100) in IEEE-754 doubles: a
\* correctly rounded division, a correctly rounded product, a truncation.
\* Mantissas are 53 bits, kept here as bit sequences, most significant first.
MANT == 53

RECURSIVE Pow2(_)
Pow2(n) ==
  IF n = 0 THEN 1
  ELSE LET h == Pow2(n \div 2) IN IF n % 2 = 0 THEN h * h ELSE 2 * h * h

\* 2^n mod t
RECURSIVE Pow2Mod(_, _)
Pow2Mod(n, t) ==
  IF n = 0 THEN 1 % t
  ELSE LET h == Pow2Mod(n \div 2, t)
       IN  IF n % 2 = 0 THEN (h * h) % t ELSE (2 * ((h * h) % t)) % t

Zeros(n) == [k \in 1..n |-> 0]

\* the number a sequence of at most 30 bits writes
RECURSIVE BitsToNat(_)
BitsToNat(bs) ==
  IF Len(bs) = 0 THEN 0
  ELSE IF Len(bs) = 1 THEN bs[1]
  ELSE LET h == Len(bs) \div 2
       IN  BitsToNat(SubSeq(bs, 1, h)) * Pow2(Len(bs) - h)
             + BitsToNat(SubSeq(bs, h + 1, Len(bs)))

\* v written on w bits
NatToBits(v, w) == [k \in 1..w |-> (v \div Pow2(w - k)) % 2]

\* bs + 1 on the same length, for a bs that is not all ones
IncBits(bs) ==
  LET p == CHOOSE k \in DOMAIN bs :
             bs[k] = 0 /\ \A j \in DOMAIN bs : j > k => bs[j] = 1
  IN  [k \in DOMAIN bs |-> IF k < p THEN bs[k] ELSE IF k = p THEN 1 ELSE 0]

StripZeros(bs) ==
  LET nz == {k \in DOMAIN bs : bs[k] = 1}
  IN  IF nz = {} THEN <<>>
      ELSE SubSeq(bs, CHOOSE k \in nz : \A j \in nz : k <= j, Len(bs))

\* round-to-nearest-even of an exact value (the bits bs, bs[1] = 1, followed
\* by a sticky flag for what lies below them) to MANT bits: [m |-> mantissa,
\* e |-> exponent of its last bit]; e0 is the exponent of the last bit of bs
RoundBits(bs, sticky, e0) ==
  IF Len(bs) <= MANT
  THEN [m |-> bs \o Zeros(MANT - Len(bs)), e |-> e0 - (MANT - Len(bs))]
  ELSE LET keep  == SubSeq(bs, 1, MANT)
           rest  == SubSeq(bs, MANT + 1, Len(bs))
           half  == rest[1] = 1
           more  == sticky \/ \E k \in 2..Len(rest) : rest[k] = 1
           up    == half /\ (more \/ keep[MANT] = 1)
           e1    == e0 + Len(rest)
       IN  IF ~up THEN [m |-> keep, e |-> e1]
           ELSE IF \A k \in 1..MANT : keep[k] = 1
                THEN [m |-> <<1>> \o Zeros(MANT - 1), e |-> e1 + 1]
                ELSE [m |-> IncBits(keep), e |-> e1]

\* the remainder of r * 2^j by t, and bit j after the binary point of r / t
RemAt(r, t, j) == (r * Pow2Mod(j, t)) % t
DivBit(r, t, j) == IF 2 * RemAt(r, t, j - 1) >= t THEN 1 ELSE 0

\* the least k with c * 2^k >= t
RECURSIVE ShiftTo(_, _, _)
ShiftTo(c, t, k) == IF c >= t THEN k ELSE ShiftTo(2 * c, t, k + 1)

\* the double nearest to c / t, for 1 <= c <= t
FloatDiv(c, t) ==
  LET k  == ShiftTo(c, t, 0)
      r  == c * Pow2(k) - t      \* the quotient is 1 + r / t, in [1, 2)
      fr == [j \in 1..MANT |-> DivBit(r, t, j)]
  IN  RoundBits(<<1>> \o fr, RemAt(r, t, MANT) # 0, -k - MANT)

\* the double nearest to x * 100: the exact product, limb by limb, then rounded
LIMB == 18
FloatMul100(x) ==
  LET l1 == BitsToNat(SubSeq(x.m, 1, MANT - 2 * LIMB))
      l2 == BitsToNat(SubSeq(x.m, MANT - 2 * LIMB + 1, MANT - LIMB))
      l3 == BitsToNat(SubSeq(x.m, MANT - LIMB + 1, MANT))
      B  == Pow2(LIMB)
      p3 == l3 * 100
      p2 == l2 * 100 + p3 \div B
      p1 == l1 * 100 + p2 \div B
      s  == NatToBits(p1, MANT - 2 * LIMB + 7) \o NatToBits(p2 % B, LIMB)
              \o NatToBits(p3 % B, LIMB)
  IN  RoundBits(StripZeros(s), FALSE, x.e)

\* int(x): truncation toward zero of a positive double below 2^30
FloatToInt(x) ==
  LET n == MANT + x.e   \* number of bits before the binary point
  IN  IF n <= 0 THEN 0 ELSE BitsToNat(SubSeq(x.m, 1, n))

\* int((c / t) * 100), for 1 <= c <= t
IntOfRatioTimes100(c, t) == FloatToInt(FloatMul100(FloatDiv(c, t)))

(* ============================ run_concurrent_tasks ===================== *)
Tasks == 1..total

\* what awaiting task ti can end in: a success value, a failure carried as a
\* value (download_file returns its error as a string), or a raised exception
Outcome(i) == {[kind |-> k, of |-> i] : k \in {"value", "failure", "raise"}}
NoResult == [kind |-> "none", of |-> 0]

\* semaphore = asyncio.Semaphore(Config.MAX_WORKERS)
NewSemaphoreOffByOne(n) == [value |-> n + 1, waiters |-> <<>>]
NewSemaphore(n) == [value |-> n, waiters |-> <<>>]

\* Semaphore.locked(): no free slot, or somebody queued ahead
locked(s) == s.value = 0 \/ s.waiters # <<>>

\* the waiters whose future is not done yet
Sleeping(s) == {k \in DOMAIN s.waiters : ~s.waiters[k].done}

\* Semaphore._wake_up_next(): the slot goes to the first waiter not yet woken
WakeLast(s) == CHOOSE k \in Sleeping(s) : \A j \in Sleeping(s) : j <= k
WakeFirst(s) == CHOOSE k \in Sleeping(s) : \A j \in Sleeping(s) : k <= j

wake_up_next(s) ==
  IF Sleeping(s) = {} THEN s
  ELSE [value |-> s.value - 1,
        waiters |-> [s.waiters EXCEPT ![WakeFirst(s)].done = TRUE]]

\* the coroutine that wake_up_next hands to the event loop
Woken(s) == IF Sleeping(s) = {} THEN <<>> ELSE <<s.waiters[WakeFirst(s)].task>>

\* Semaphore.release(), at the exit of "async with semaphore"
release(s) == wake_up_next([s EXCEPT !.value = @ + 1])
Released(s) == Woken([s EXCEPT !.value = @ + 1])

\* the waiter's part of Semaphore.acquire() once its future is done: it leaves
\* the queue and passes a slot that is still free to the next waiter
Leave(s, i) ==
  LET w == [s EXCEPT !.waiters = SelectSeq(s.waiters, LAMBDA x : x.task # i)]
  IN  IF w.value > 0 THEN wake_up_next(w) ELSE w
LeaveWoken(s, i) ==
  LET w == [s EXCEPT !.waiters = SelectSeq(s.waiters, LAMBDA x : x.task # i)]
  IN  IF w.value > 0 THEN Woken(w) ELSE <<>>

\* asyncio.gather(*children): the list of the children's results, in the
\* order of the children (res: the children's results, order: the order in
\* which they finished)
CompletionOrderResults(res, order) == [k \in 1..Len(order) |-> res[order[k]]]
GatherResults(res, order) == [i \in 1..Len(order) |-> res[i]]

RunnerInit ==
  /\ MAX_WORKERS \in 1..MaxWorkers
  /\ progress_details \in BOOLEAN
  /\ total \in 0..MaxTasks
  /\ tasks = [i \in Tasks |-> [kind |-> "pending", of |-> i]]
  /\ completed = 0
  /\ semaphore = NewSemaphore(MAX_WORKERS)
  /\ pc = [i \in Tasks |-> "start"]
  /\ ready = [i \in Tasks |-> i]       \* gather schedules run_task(t0), run_task(t1), ...
  /\ reply = [i \in Tasks |-> "none"]
  /\ result = [i \in Tasks |-> NoResult]
  /\ outer = IF total = 0 THEN "returned" ELSE "pending"
  /\ returned = <<>>
  /\ shown = <<>>
  /\ floods = 0
  /\ admitted = <<>>
  /\ done_order = <<>>

\* no run_concurrent_tasks call is in progress
RunnerIdle ==
  /\ MAX_WORKERS = 1
  /\ progress_details = FALSE
  /\ total = 0
  /\ tasks = <<>>
  /\ completed = 0
  /\ semaphore = NewSemaphore(MAX_WORKERS)
  /\ pc = <<>>
  /\ ready = <<>>
  /\ reply = <<>>
  /\ result = <<>>
  /\ outer = "returned"
  /\ returned = <<>>
  /\ shown = <<>>
  /\ floods = 0
  /\ admitted = <<>>
  /\ done_order = <<>>

\* gather's done-callback for child i: the first exception is set on the outer
\* future at once; the list is set when the last child has finished
ChildDone(i, raised) ==
  /\ done_order' = Append(done_order, i)
  /\ outer' = IF outer # "pending" THEN outer
              ELSE IF raised THEN "raised"
              ELSE IF Len(done_order) + 1 = total THEN "returned"
              ELSE outer
  /\ returned' = IF outer = "pending" /\ ~raised /\ Len(done_order) + 1 = total
                 THEN GatherResults(result', done_order') ELSE returned

\* "result = await task" begins: the awaitable either suspends on its I/O, or
\* finishes without suspending, and then run_task goes on at once
AwaitTask(i, rdy) ==
  /\ pc' = [pc EXCEPT ![i] = "await_task"]
  /\ admitted' = Append(admitted, i)
  /\ \/ /\ tasks' = [tasks EXCEPT ![i].kind = "running"]
        /\ ready' = rdy
     \/ \E o \in Outcome(i) :
          /\ tasks' = [tasks EXCEPT ![i] = o]
          /\ ready' = <<i>> \o rdy

\* run_task(ti) starts: "async with semaphore" finds a free slot ...
Acquire ==
  /\ ready # <<>>
  /\ LET i == Head(ready) IN
       /\ pc[i] = "start"
       /\ ~locked(semaphore)
       /\ semaphore' = [semaphore EXCEPT !.value = @ - 1]
       /\ AwaitTask(i, Tail(ready))
  /\ UNCHANGED <<MAX_WORKERS, progress_details, total, completed, reply, result,
                 outer, returned, shown, floods, done_order>>
  /\ UNCHANGED <<packVars, albumVars, fetchVars, sendVars, trackVars, linkVars, uploadVars, spamVars, nestVars, progVars>>

\* ... or queues behind the gate
Enqueue ==
  /\ ready # <<>>
  /\ LET i == Head(ready) IN
       /\ pc[i] = "start"
       /\ locked(semaphore)
       /\ semaphore' = [semaphore EXCEPT
                          !.waiters = Append(@, [task |-> i, done |-> FALSE])]
       /\ pc' = [pc EXCEPT ![i] = "acquire_wait"]
       /\ ready' = Tail(ready)
  /\ UNCHANGED <<MAX_WORKERS, progress_details, tasks, total, completed, reply,
                 result, outer, returned, shown, floods, admitted, done_order>>
  /\ UNCHANGED <<packVars, albumVars, fetchVars, sendVars, trackVars, linkVars, uploadVars, spamVars, nestVars, progVars>>

\* a woken waiter resumes inside acquire() and enters the block
Admit ==
  /\ ready # <<>>
  /\ LET i == Head(ready) IN
       /\ pc[i] = "acquire_wait"
       /\ semaphore' = Leave(semaphore, i)
       /\ AwaitTask(i, Tail(ready) \o LeaveWoken(semaphore, i))
  /\ UNCHANGED <<MAX_WORKERS, progress_details, total, completed, reply, result,
                 outer, returned, shown, floods, done_order>>
  /\ UNCHANGED <<packVars, albumVars, fetchVars, sendVars, trackVars, linkVars, uploadVars, spamVars, nestVars, progVars>>

\* the I/O that task ti waits for ends: the loop schedules run_task(ti)
TaskEnds(i) ==
  /\ pc[i] = "await_task"
  /\ tasks[i].kind = "running"
  /\ \E o \in Outcome(i) : tasks' = [tasks EXCEPT ![i] = o]
  /\ ready' = Append(ready, i)
  /\ UNCHANGED <<MAX_WORKERS, progress_details, total, completed, semaphore, pc,
                 reply, result, outer, returned, shown, floods, admitted,
                 done_order>>
  /\ UNCHANGED <<packVars, albumVars, fetchVars, sendVars, trackVars, linkVars, uploadVars, spamVars, nestVars, progVars>>

\* progress = int((completed / total) * 100), tabulated once for the totals
\* a run can have
PercentTable ==
  [t \in 1..MaxTasks |-> [c \in 1..t |-> IntOfRatioTimes100(c, t)]]
Percent(c, t) == PercentTable[t][c]

\* edit_message(msg, text, markup, antiflood) on the transport's answer rep:
\* what the call does next
edit_message_always_retries(rep, antiflood) ==
  CASE rep = "edited" -> "return_handle"
    [] rep = "MessageNotModified" -> "return_None"
    [] rep = "FloodWait" -> "sleep_and_retry"
    [] OTHER -> "raise"

edit_message(rep, antiflood) ==
  CASE rep = "edited" -> "return_handle"
    [] rep = "MessageNotModified" -> "return_None"
    [] rep = "FloodWait" -> IF antiflood THEN "sleep_and_retry" ELSE "return_None"
    [] OTHER -> "raise"

EditReplies == {"edited", "MessageNotModified", "FloodWait", "RPCError"}

ExitKeepsSlotOnRaise(i, raised) ==
  /\ semaphore' = IF raised THEN semaphore ELSE release(semaphore)
  /\ ready' = Tail(ready) \o (IF raised THEN <<>> ELSE Released(semaphore))
  /\ pc' = [pc EXCEPT ![i] = IF raised THEN "raised" ELSE "returned"]
  /\ result' = IF raised THEN result ELSE [result EXCEPT ![i] = tasks[i]]
  /\ ChildDone(i, raised)

\* leaving "async with semaphore": the slot is released and child i is done
Exit(i, raised) ==
  /\ semaphore' = release(semaphore)
  /\ ready' = Tail(ready) \o Released(semaphore)
  /\ pc' = [pc EXCEPT ![i] = IF raised THEN "raised" ELSE "returned"]
  /\ result' = IF raised THEN result ELSE [result EXCEPT ![i] = tasks[i]]
  /\ ChildDone(i, raised)

\* "result = await task" raises: the exception leaves run_task through the
\* "async with", before "completed += 1"
TaskRaised ==
  /\ ready # <<>>
  /\ LET i == Head(ready) IN
       /\ pc[i] = "await_task"
       /\ tasks[i].kind = "raise"
       /\ Exit(i, TRUE)
  /\ UNCHANGED <<MAX_WORKERS, progress_details, tasks, total, completed, reply,
                 shown, floods, admitted>>
  /\ UNCHANGED <<packVars, albumVars, fetchVars, sendVars, trackVars, linkVars, uploadVars, spamVars, nestVars, progVars>>

\* "result = await task" returns and there is no progress handle
TaskDone ==
  /\ ready # <<>>
  /\ ~progress_details
  /\ LET i == Head(ready) IN
       /\ pc[i] = "await_task"
       /\ tasks[i].kind # "raise"
       /\ completed' = completed + 1
       /\ Exit(i, FALSE)
  /\ UNCHANGED <<MAX_WORKERS, progress_details, tasks, total, reply, shown,
                 floods, admitted>>
  /\ UNCHANGED <<packVars, albumVars, fetchVars, sendVars, trackVars, linkVars, uploadVars, spamVars, nestVars, progVars>>

\* "result = await task" returns and the status message is refreshed
TaskDoneProgress ==
  /\ ready # <<>>
  /\ progress_details
  /\ LET i == Head(ready) IN
       /\ pc[i] = "await_task"
       /\ tasks[i].kind # "raise"
       /\ completed' = completed + 1
       /\ shown' = Append(shown, Percent(completed + 1, total))
       /\ pc' = [pc EXCEPT ![i] = "await_edit"]
       /\ reply' = [reply EXCEPT ![i] = "pending"]
       /\ ready' = Tail(ready)
  /\ UNCHANGED <<MAX_WORKERS, progress_details, tasks, total, semaphore, result,
                 outer, returned, floods, admitted, done_order>>
  /\ UNCHANGED <<packVars, albumVars, fetchVars, sendVars, trackVars, linkVars, uploadVars, spamVars, nestVars, progVars>>

\* the transport answers the edit of task i
EditAnswers(i) ==
  /\ pc[i] = "await_edit"
  /\ reply[i] = "pending"
  /\ \E r \in EditReplies :
       /\ r = "FloodWait" => floods < MaxFloods
       /\ reply' = [reply EXCEPT ![i] = r]
       /\ floods' = IF r = "FloodWait" THEN floods + 1 ELSE floods
  /\ ready' = Append(ready, i)
  /\ UNCHANGED <<MAX_WORKERS, progress_details, tasks, total, completed, semaphore,
                 pc, result, outer, returned, shown, admitted, done_order>>
  /\ UNCHANGED <<packVars, albumVars, fetchVars, sendVars, trackVars, linkVars, uploadVars, spamVars, nestVars, progVars>>

\* edit_message returns (a handle or None): run_task returns its result
EditReturns ==
  /\ ready # <<>>
  /\ LET i == Head(ready) IN
       /\ pc[i] = "await_edit"
       /\ edit_message(reply[i], TRUE) \in {"return_handle", "return_None"}
       /\ reply' = [reply EXCEPT ![i] = "none"]
       /\ Exit(i, FALSE)
  /\ UNCHANGED <<MAX_WORKERS, progress_details, tasks, total, completed, shown,
                 floods, admitted>>
  /\ UNCHANGED <<packVars, albumVars, fetchVars, sendVars, trackVars, linkVars, uploadVars, spamVars, nestVars, progVars>>

\* edit_message raises something that is not FloodWait: "except FloodWait"
\* does not catch it and it leaves run_task
EditRaises ==
  /\ ready # <<>>
  /\ LET i == Head(ready) IN
       /\ pc[i] = "await_edit"
       /\ edit_message(reply[i], TRUE) = "raise"
       /\ reply' = [reply EXCEPT ![i] = "none"]
       /\ Exit(i, TRUE)
  /\ UNCHANGED <<MAX_WORKERS, progress_details, tasks, total, completed, shown,
                 floods, admitted>>
  /\ UNCHANGED <<packVars, albumVars, fetchVars, sendVars, trackVars, linkVars, uploadVars, spamVars, nestVars, progVars>>

\* edit_message is rate limited: it sleeps e.value seconds inside the block
EditSleeps ==
  /\ ready # <<>>
  /\ LET i == Head(ready) IN
       /\ pc[i] = "await_edit"
       /\ edit_message(reply[i], TRUE) = "sleep_and_retry"
       /\ pc' = [pc EXCEPT ![i] = "sleep"]
       /\ reply' = [reply EXCEPT ![i] = "sleeping"]
       /\ ready' = Tail(ready)
  /\ UNCHANGED <<MAX_WORKERS, progress_details, tasks, total, completed, semaphore,
                 result, outer, returned, shown, floods, admitted, done_order>>
  /\ UNCHANGED <<packVars, albumVars, fetchVars, sendVars, trackVars, linkVars, uploadVars, spamVars, nestVars, progVars>>

\* the sleep of task i is over
TimerFires(i) ==
  /\ pc[i] = "sleep"
  /\ reply[i] = "sleeping"
  /\ reply' = [reply EXCEPT ![i] = "woke"]
  /\ ready' = Append(ready, i)
  /\ UNCHANGED <<MAX_WORKERS, progress_details, tasks, total, completed, semaphore,
                 pc, result, outer, returned, shown, floods, admitted, done_order>>
  /\ UNCHANGED <<packVars, albumVars, fetchVars, sendVars, trackVars, linkVars, uploadVars, spamVars, nestVars, progVars>>

\* after the sleep edit_message calls itself with the same arguments
EditRetries ==
  /\ ready # <<>>
  /\ LET i == Head(ready) IN
       /\ pc[i] = "sleep"
       /\ pc' = [pc EXCEPT ![i] = "await_edit"]
       /\ reply' = [reply EXCEPT ![i] = "pending"]
       /\ ready' = Tail(ready)
  /\ UNCHANGED <<MAX_WORKERS, progress_details, tasks, total, completed, semaphore,
                 result, outer, returned, shown, floods, admitted, done_order>>
  /\ UNCHANGED <<packVars, albumVars, fetchVars, sendVars, trackVars, linkVars, uploadVars, spamVars, nestVars, progVars>>

(* ============================== split_zip_folder ======================= *)
\* MAX_SIZE = 1.9 * 1024 * 1024 * 1024 bytes. Sizes are counted in MiB here, so
\* the limit is 1945.6 MiB: it is kept in tenths of a MiB.
MAX_SIZE == 19456

\* the file sizes tried, in MiB: empty, small, two that fit together only
\* just (972 + 973), two that do not (973 + 973), one larger than MAX_SIZE
FileSizes == {0, 600, 972, 973, 1946}

\* the album of the scenario: 12 tracks, 3584 MiB (3.5 GiB) in all
ScenarioAlbum == [k \in 1..12 |-> IF k <= 8 THEN 299 ELSE 298]

Trees == UNION {[1..n -> FileSizes] : n \in 0..MaxFiles} \cup {ScenarioAlbum}

ZipPathAlwaysNumbered(zip_name, n) == <<zip_name, ".part", n, ".zip">>

\* zip_path of add_to_zip: "{zip_name}.zip" or "{zip_name}.part{part_num}.zip"
ZipPath(zip_name, n) ==
  IF n = 1 THEN <<zip_name, ".zip">> ELSE <<zip_name, ".part", n, ".zip">>

\* "if current_size + file_size > MAX_SIZE"
ExceedsCheckedAfter(cur, file_size) == 10 * cur > MAX_SIZE
Exceeds(cur, file_size) == 10 * (cur + file_size) > MAX_SIZE

\* current_files once file f has been handled: the file that triggered the
\* seal starts the new batch
BatchLosesTrigger(files, f, sealed) == IF sealed THEN <<>> ELSE Append(files, f)
Batch(files, f, sealed) == IF sealed THEN <<f>> ELSE Append(files, f)

\* add_to_zip(zip_name, files_to_add): the archive is (over)written with the
\* files, each removed from disk once written
add_to_zip(zs, path, files_to_add) ==
  {z \in zs : z.path # path} \cup {[path |-> path, members |-> files_to_add]}

PackInit ==
  /\ tree \in Trees
  /\ walk = 1
  /\ disk = DOMAIN tree
  /\ zips = {}
  /\ zip_paths = <<>>
  /\ part_num = 1
  /\ current_size = 0
  /\ current_files = <<>>
  /\ pack_pc = "walk"

\* the packer is not running
PackIdle ==
  /\ tree = <<>>
  /\ walk = 1
  /\ disk = {}
  /\ zips = {}
  /\ zip_paths = <<>>
  /\ part_num = 1
  /\ current_size = 0
  /\ current_files = <<>>
  /\ pack_pc = "returned"

\* one iteration of "for file in files": the batch is sealed first when the
\* file does not fit, then the file joins the current batch
WalkFile ==
  /\ pack_pc = "walk"
  /\ walk <= Len(tree)
  /\ LET file_size == tree[walk]
         sealed    == Exceeds(current_size, file_size)
         path      == ZipPath("folderpath", part_num)
     IN  /\ zips' = IF sealed THEN add_to_zip(zips, path, current_files) ELSE zips
         /\ disk' = IF sealed THEN disk \ Range(current_files) ELSE disk
         /\ zip_paths' = IF sealed THEN Append(zip_paths, path) ELSE zip_paths
         /\ part_num' = IF sealed THEN part_num + 1 ELSE part_num
         /\ current_files' = Batch(current_files, walk, sealed)
         /\ current_size' = (IF sealed THEN 0 ELSE current_size) + file_size
  /\ walk' = walk + 1
  /\ UNCHANGED <<tree, pack_pc>>
  /\ UNCHANGED <<runnerVars, albumVars, fetchVars, sendVars, trackVars, linkVars, uploadVars, spamVars, nestVars, progVars>>

\* the walk is over
WalkEnds ==
  /\ pack_pc = "walk"
  /\ walk > Len(tree)
  /\ pack_pc' = "final"
  /\ UNCHANGED <<tree, walk, disk, zips, zip_paths, part_num, current_size,
                 current_files>>
  /\ UNCHANGED <<runnerVars, albumVars, fetchVars, sendVars, trackVars, linkVars, uploadVars, spamVars, nestVars, progVars>>

\* "if current_files:" the remaining files make the last archive
FinalZip ==
  /\ pack_pc = "final"
  /\ current_files # <<>>
  /\ LET path == ZipPath("folderpath", part_num)
     IN  /\ zips' = add_to_zip(zips, path, current_files)
         /\ zip_paths' = Append(zip_paths, path)
  /\ disk' = disk \ Range(current_files)
  /\ pack_pc' = "returned"
  /\ UNCHANGED <<tree, walk, part_num, current_size, current_files>>
  /\ UNCHANGED <<runnerVars, albumVars, fetchVars, sendVars, trackVars, linkVars, uploadVars, spamVars, nestVars, progVars>>

\* ... or there is none and zip_paths is returned as it is
NoFinalZip ==
  /\ pack_pc = "final"
  /\ current_files = <<>>
  /\ pack_pc' = "returned"
  /\ UNCHANGED <<tree, walk, disk, zips, zip_paths, part_num, current_size,
                 current_files>>
  /\ UNCHANGED <<runnerVars, albumVars, fetchVars, sendVars, trackVars, linkVars, uploadVars, spamVars, nestVars, progVars>>

PackNext ==
  \/ WalkFile
  \/ WalkEnds
  \/ FinalZip
  \/ NoFinalZip

(* ================================ album_upload ========================= *)
\* send_message(user, item, itype, ...) on the transport's answer rep: a
\* FloodWait is slept out and the call repeated; any other exception is logged
\* and "return msg" then fails on the unassigned msg
send_message_no_retry(rep) == IF rep = "sent" THEN "return_handle" ELSE "raise"
send_message(rep) ==
  CASE rep = "sent" -> "return_handle"
    [] rep = "FloodWait" -> "sleep_and_retry"
    [] OTHER -> "raise"

SendReplies == {"sent", "FloodWait", "RPCError"}

LinkOptions == {"False", "RCLONE", "Index", "Both"}

rclone_upload_index_after_link(dest, link_options, returncode, index_link) ==
  IF ~dest THEN <<"None", "None">>
  ELSE IF link_options \in {"RCLONE", "Both"} /\ returncode # 0
       THEN <<"None", "None">>
       ELSE <<IF link_options \in {"RCLONE", "Both"} THEN "rclone_link" ELSE "None",
              IF link_options \in {"Index", "Both"} /\ index_link
              THEN "index_link" ELSE "None">>

\* rclone_upload(user, path, base_path): (rclone_link, index_link)
rclone_upload(dest, link_options, returncode, index_link) ==
  IF ~dest THEN <<"None", "None">>
  ELSE <<IF link_options \in {"RCLONE", "Both"} /\ returncode = 0
         THEN "rclone_link" ELSE "None",
         IF link_options \in {"Index", "Both"} /\ index_link
         THEN "index_link" ELSE "None">>

\* create_simple_zip: zip_path = f"{folderpath}_{zip_name}.zip"
SimpleZipPath == <<"folderpath", "_Provider_Title_Album", ".zip">>

\* the files os.walk(folderpath) finds, in order
Walked(files) == SelectSeq([k \in DOMAIN album |-> k], LAMBDA k : k \in files)

AlbumSizes == {300, 1946}
Albums == UNION {[1..n -> AlbumSizes] : n \in 0..MaxTracks} \cup {ScenarioAlbum}

AlbumInit ==
  /\ UPLOAD_MODE \in {"Telegram", "Rclone"}
  /\ ALBUM_ZIP \in BOOLEAN
  /\ album \in Albums
  /\ alb_files = DOMAIN album
  /\ alb_dir = TRUE
  /\ alb_zips = {}
  /\ alb_made = <<>>
  /\ alb_sent = <<>>
  /\ alb_links = <<"None", "None">>
  /\ alb_i = 1
  /\ alb_reply = "none"
  /\ alb_floods = 0
  /\ alb_pc = "start"

\* no album_upload call is in progress
AlbumAbsent ==
  /\ ALBUM_ZIP = FALSE
  /\ album = <<>>
  /\ alb_files = {}
  /\ alb_dir = FALSE
  /\ alb_zips = {}
  /\ alb_made = <<>>
  /\ alb_sent = <<>>
  /\ alb_links = <<"None", "None">>
  /\ alb_i = 1
  /\ alb_reply = "none"
  /\ alb_floods = 0
  /\ alb_pc = "done"

AlbumIdle == UPLOAD_MODE = "Telegram" /\ AlbumAbsent

\* "# Cleanup": shutil.rmtree(metadata['folderpath'])
Rmtree ==
  /\ alb_files' = {}
  /\ alb_dir' = FALSE
  /\ alb_pc' = "done"

\* Telegram, ALBUM_ZIP: create_simple_zip writes one archive of the whole
\* folder (the sources stay) and the archive is sent as a document
AlbumZipSend ==
  /\ alb_pc = "start"
  /\ UPLOAD_MODE = "Telegram"
  /\ ALBUM_ZIP
  /\ LET z == [path |-> SimpleZipPath, members |-> Walked(alb_files)]
     IN  /\ alb_zips' = {x \in alb_zips : x.path # z.path} \cup {z}
         /\ alb_made' = Append(alb_made, z)
         /\ alb_sent' = Append(alb_sent, [itype |-> "doc", item |-> z.path])
  /\ alb_reply' = "pending"
  /\ alb_pc' = "send_doc"
  /\ UNCHANGED <<UPLOAD_MODE, ALBUM_ZIP, album, alb_files, alb_dir, alb_links,
                 alb_i, alb_floods>>
  /\ UNCHANGED <<runnerVars, packVars, fetchVars, sendVars, trackVars, linkVars, uploadVars, spamVars, nestVars, progVars>>

\* the transport answers the pending call
TransportAnswers ==
  /\ alb_reply = "pending"
  /\ \E r \in SendReplies \cup {"MessageNotModified"} :
       /\ r = "MessageNotModified" => alb_pc = "edit_poster"
       /\ r = "sent" => alb_pc # "edit_poster"
       /\ r = "FloodWait" => alb_floods < MaxFloods
       /\ alb_reply' = r
       /\ alb_floods' = IF r = "FloodWait" THEN alb_floods + 1 ELSE alb_floods
  /\ UNCHANGED <<UPLOAD_MODE, ALBUM_ZIP, album, alb_files, alb_dir, alb_zips,
                 alb_made, alb_sent, alb_links, alb_i, alb_pc>>
  /\ UNCHANGED <<runnerVars, packVars, fetchVars, sendVars, trackVars, linkVars, uploadVars, spamVars, nestVars, progVars>>

\* send_message / edit_message slept out a FloodWait and issues the call again
TransportRetry ==
  /\ alb_pc \in {"send_doc", "send_track", "send_text", "edit_poster"}
  /\ IF alb_pc = "edit_poster"
     THEN edit_message(alb_reply, TRUE) = "sleep_and_retry"
     ELSE alb_reply # "pending" /\ send_message(alb_reply) = "sleep_and_retry"
  /\ alb_sent' = Append(alb_sent, alb_sent[Len(alb_sent)])
  /\ alb_reply' = "pending"
  /\ UNCHANGED <<UPLOAD_MODE, ALBUM_ZIP, album, alb_files, alb_dir, alb_zips,
                 alb_made, alb_links, alb_i, alb_floods, alb_pc>>
  /\ UNCHANGED <<runnerVars, packVars, fetchVars, sendVars, trackVars, linkVars, uploadVars, spamVars, nestVars, progVars>>

\* the call raises: the exception leaves album_upload before any cleanup
TransportRaises ==
  /\ alb_pc \in {"send_doc", "send_track", "send_text", "edit_poster"}
  /\ alb_reply \notin {"pending", "none"}
  /\ IF alb_pc = "edit_poster"
     THEN edit_message(alb_reply, TRUE) = "raise"
     ELSE send_message(alb_reply) = "raise"
  /\ alb_reply' = "none"
  /\ alb_pc' = "raised"
  /\ UNCHANGED <<UPLOAD_MODE, ALBUM_ZIP, album, alb_files, alb_dir, alb_zips,
                 alb_made, alb_sent, alb_links, alb_i, alb_floods>>
  /\ UNCHANGED <<runnerVars, packVars, fetchVars, sendVars, trackVars, linkVars, uploadVars, spamVars, nestVars, progVars>>

\* the document is sent: os.remove(zip_path), then the cleanup
AlbumDocSent ==
  /\ alb_pc = "send_doc"
  /\ alb_reply # "pending"
  /\ send_message(alb_reply) = "return_handle"
  /\ alb_zips' = {x \in alb_zips : x.path # SimpleZipPath}
  /\ alb_reply' = "none"
  /\ Rmtree
  /\ UNCHANGED <<UPLOAD_MODE, ALBUM_ZIP, album, alb_made, alb_sent, alb_links,
                 alb_i, alb_floods>>
  /\ UNCHANGED <<runnerVars, packVars, fetchVars, sendVars, trackVars, linkVars, uploadVars, spamVars, nestVars, progVars>>

\* Telegram, no ALBUM_ZIP: track_upload(track) sends the next track as audio
TrackSend ==
  /\ alb_pc = "start"
  /\ UPLOAD_MODE = "Telegram"
  /\ ~ALBUM_ZIP
  /\ alb_i <= Len(album)
  /\ alb_sent' = Append(alb_sent, [itype |-> "audio", item |-> <<"track", alb_i>>])
  /\ alb_reply' = "pending"
  /\ alb_pc' = "send_track"
  /\ UNCHANGED <<UPLOAD_MODE, ALBUM_ZIP, album, alb_files, alb_dir, alb_zips,
                 alb_made, alb_links, alb_i, alb_floods>>
  /\ UNCHANGED <<runnerVars, packVars, fetchVars, sendVars, trackVars, linkVars, uploadVars, spamVars, nestVars, progVars>>

\* the track is sent: track_upload removes its file and the loop goes on
TrackSent ==
  /\ alb_pc = "send_track"
  /\ alb_reply # "pending"
  /\ send_message(alb_reply) = "return_handle"
  /\ alb_files' = alb_files \ {alb_i}
  /\ alb_i' = alb_i + 1
  /\ alb_reply' = "none"
  /\ alb_pc' = "start"
  /\ UNCHANGED <<UPLOAD_MODE, ALBUM_ZIP, album, alb_dir, alb_zips, alb_made,
                 alb_sent, alb_links, alb_floods>>
  /\ UNCHANGED <<runnerVars, packVars, fetchVars, sendVars, trackVars, linkVars, uploadVars, spamVars, nestVars, progVars>>

\* every track is uploaded: the cleanup
TracksDone ==
  /\ alb_pc = "start"
  /\ UPLOAD_MODE = "Telegram"
  /\ ~ALBUM_ZIP
  /\ alb_i > Len(album)
  /\ Rmtree
  /\ UNCHANGED <<UPLOAD_MODE, ALBUM_ZIP, album, alb_zips, alb_made, alb_sent,
                 alb_links, alb_i, alb_reply, alb_floods>>
  /\ UNCHANGED <<runnerVars, packVars, fetchVars, sendVars, trackVars, linkVars, uploadVars, spamVars, nestVars, progVars>>

\* Rclone: rclone_upload resolves the links of the folder, then the text
\* replaces the poster message when there is one and is sent otherwise
AlbumLinkMessage ==
  /\ alb_pc = "start"
  /\ UPLOAD_MODE = "Rclone"
  /\ \E dest \in BOOLEAN, lo \in LinkOptions, rc \in {0, 1}, idx \in BOOLEAN :
       alb_links' = rclone_upload(dest, lo, rc, idx)
  /\ \E poster_msg \in BOOLEAN :
       /\ alb_sent' = Append(alb_sent, [itype |-> IF poster_msg THEN "edit" ELSE "text",
                                       item |-> alb_links'])
       /\ alb_pc' = IF poster_msg THEN "edit_poster" ELSE "send_text"
  /\ alb_reply' = "pending"
  /\ UNCHANGED <<UPLOAD_MODE, ALBUM_ZIP, album, alb_files, alb_dir, alb_zips,
                 alb_made, alb_i, alb_floods>>
  /\ UNCHANGED <<runnerVars, packVars, fetchVars, sendVars, trackVars, linkVars, uploadVars, spamVars, nestVars, progVars>>

\* the link message is out: the cleanup
LinkMessageDone ==
  /\ \/ /\ alb_pc = "send_text"
        /\ alb_reply # "pending"
        /\ send_message(alb_reply) = "return_handle"
     \/ /\ alb_pc = "edit_poster"
        /\ edit_message(alb_reply, TRUE) \in {"return_handle", "return_None"}
        /\ alb_reply \in {"edited", "MessageNotModified"}
  /\ alb_reply' = "none"
  /\ Rmtree
  /\ UNCHANGED <<UPLOAD_MODE, ALBUM_ZIP, album, alb_zips, alb_made, alb_sent,
                 alb_links, alb_i, alb_floods>>
  /\ UNCHANGED <<runnerVars, packVars, fetchVars, sendVars, trackVars, linkVars, uploadVars, spamVars, nestVars, progVars>>

AlbumNext ==
  \/ AlbumZipSend
  \/ TransportAnswers
  \/ TransportRetry
  \/ TransportRaises
  \/ AlbumDocSent
  \/ TrackSend
  \/ TrackSent
  \/ TracksDone
  \/ AlbumLinkMessage
  \/ LinkMessageDone

(* ===================== send_message / edit_message ===================== *)
\* the itype values send_message has a branch for
ITypes == {"text", "doc", "audio", "video", "pic"}

\* FloodWait.value: the seconds the transport asks to wait
FloodValues == {1, 3}

\* the answers the transport can give to a call made by fn
Replies(fn) ==
  {[kind |-> k, value |-> 0] :
     k \in (IF fn = "send_message" THEN SendReplies ELSE EditReplies) \ {"FloodWait"}}
    \cup {[kind |-> "FloodWait", value |-> n] : n \in FloodValues}

\* what the function does with an answer
Handled(fn, rep, antiflood) ==
  IF fn = "send_message" THEN send_message(rep.kind)
  ELSE edit_message(rep.kind, antiflood)

\* the exception that leaves the function: edit_message lets the transport's
\* error through; send_message logs it and then reads msg, never assigned
Exception(fn, rep) ==
  IF fn = "send_message" THEN "UnboundLocalError" ELSE rep.kind

FloodsOf(replies) == SelectSeq(replies, LAMBDA r : r.kind = "FloodWait")

\* a call of fn(args) starts: the first call on tgclient is made
Called(fn, args, antiflood) ==
  /\ tx_fn' = fn
  /\ tx_args' = args
  /\ tx_antiflood' = antiflood
  /\ tx_calls' = <<args>>
  /\ tx_replies' = <<>>
  /\ tx_slept' = <<>>
  /\ tx_ret' = "pending"
  /\ tx_pc' = "call"

SendInit ==
  /\ tx_fn \in {"send_message", "edit_message"}
  /\ tx_args \in IF tx_fn = "send_message"
                 THEN {[itype |-> t, item |-> "item"] : t \in ITypes}
                 ELSE {[itype |-> "edit", item |-> "text"]}
  /\ tx_antiflood \in IF tx_fn = "send_message" THEN {TRUE} ELSE BOOLEAN
  /\ tx_calls = <<tx_args>>
  /\ tx_replies = <<>>
  /\ tx_slept = <<>>
  /\ tx_ret = "pending"
  /\ tx_pc = "call"

\* no send_message / edit_message call is in progress
SendIdle ==
  /\ tx_fn = "none"
  /\ tx_args = [itype |-> "none", item |-> "none"]
  /\ tx_antiflood = TRUE
  /\ tx_calls = <<>>
  /\ tx_replies = <<>>
  /\ tx_slept = <<>>
  /\ tx_ret = "pending"
  /\ tx_pc = "idle"

\* the call is answered and the function returns: the handle, or None
CallReturns ==
  /\ tx_pc = "call"
  /\ \E rep \in Replies(tx_fn) :
       LET h == Handled(tx_fn, rep, tx_antiflood)
       IN  /\ h \in {"return_handle", "return_None"}
           /\ tx_replies' = Append(tx_replies, rep)
           /\ tx_ret' = IF h = "return_handle" THEN "handle" ELSE "None"
  /\ tx_pc' = "returned"
  /\ UNCHANGED <<tx_fn, tx_args, tx_antiflood, tx_calls, tx_slept>>
  /\ UNCHANGED <<runnerVars, packVars, albumVars, fetchVars, trackVars, linkVars, uploadVars, spamVars, nestVars, progVars>>

\* the call is answered with an error the function does not handle
CallRaises ==
  /\ tx_pc = "call"
  /\ \E rep \in Replies(tx_fn) :
       /\ Handled(tx_fn, rep, tx_antiflood) = "raise"
       /\ tx_replies' = Append(tx_replies, rep)
       /\ tx_ret' = Exception(tx_fn, rep)
  /\ tx_pc' = "raised"
  /\ UNCHANGED <<tx_fn, tx_args, tx_antiflood, tx_calls, tx_slept>>
  /\ UNCHANGED <<runnerVars, packVars, albumVars, fetchVars, trackVars, linkVars, uploadVars, spamVars, nestVars, progVars>>

\* FloodWait: await asyncio.sleep(e.value)
CallSleeps ==
  /\ tx_pc = "call"
  /\ Len(FloodsOf(tx_replies)) < MaxSendFloods
  /\ \E rep \in Replies(tx_fn) :
       /\ Handled(tx_fn, rep, tx_antiflood) = "sleep_and_retry"
       /\ tx_replies' = Append(tx_replies, rep)
       /\ tx_slept' = Append(tx_slept, rep.value)
  /\ tx_pc' = "sleep"
  /\ UNCHANGED <<tx_fn, tx_args, tx_antiflood, tx_calls, tx_ret>>
  /\ UNCHANGED <<runnerVars, packVars, albumVars, fetchVars, trackVars, linkVars, uploadVars, spamVars, nestVars, progVars>>

\* the sleep is over: the function calls itself with the arguments it got
CallAgain ==
  /\ tx_pc = "sleep"
  /\ tx_calls' = Append(tx_calls, tx_args)
  /\ tx_pc' = "call"
  /\ UNCHANGED <<tx_fn, tx_args, tx_antiflood, tx_replies, tx_slept, tx_ret>>
  /\ UNCHANGED <<runnerVars, packVars, albumVars, fetchVars, trackVars, linkVars, uploadVars, spamVars, nestVars, progVars>>

SendNext ==
  \/ CallReturns
  \/ CallRaises
  \/ CallSleeps
  \/ CallAgain

(* ===================== track_upload / music_video_upload =============== *)
\* the settings link resolution reads, and the exit code of "rclone link"
LinkConfigs ==
  [dest : BOOLEAN, link_options : LinkOptions, returncode : {0, 1}, index : BOOLEAN]

\* os.remove(path): raises when the path is gone or may not be removed
os_remove(exists, denied) ==
  IF ~exists THEN "FileNotFoundError"
  ELSE IF denied THEN "PermissionError" ELSE "removed"

TrackInit ==
  /\ UPLOAD_MODE \in {"Telegram", "Rclone"}
  /\ trk_fn \in {"track_upload", "music_video_upload"}
  /\ trk_cfg \in LinkConfigs
  /\ trk_file = TRUE
  /\ trk_thumb \in {"None", "present"}
  /\ trk_links = <<"None", "None">>
  /\ trk_exc = "None"
  /\ trk_pc = "start"

\* no track_upload / music_video_upload call is in progress
TrackIdle ==
  /\ trk_fn = "none"
  /\ trk_cfg = [dest |-> FALSE, link_options |-> "False", returncode |-> 0,
                index |-> FALSE]
  /\ trk_file = FALSE
  /\ trk_thumb = "None"
  /\ trk_links = <<"None", "None">>
  /\ trk_exc = "None"
  /\ trk_pc = "idle"

\* Telegram: the file is sent as audio (track) or video (music video)
TrackSendsFile ==
  /\ trk_pc = "start"
  /\ UPLOAD_MODE = "Telegram"
  /\ Called("send_message",
            [itype |-> IF trk_fn = "track_upload" THEN "audio" ELSE "video",
             item |-> <<"filepath">>], TRUE)
  /\ trk_pc' = "send"
  /\ UNCHANGED <<trk_fn, trk_cfg, trk_file, trk_thumb, trk_links, trk_exc>>
  /\ UNCHANGED <<runnerVars, packVars, albumVars, fetchVars, linkVars, uploadVars, spamVars, nestVars, progVars>>

\* Rclone: rclone_upload resolves the links, the text that carries them is sent
TrackSendsLinks ==
  /\ trk_pc = "start"
  /\ UPLOAD_MODE = "Rclone"
  /\ trk_links' = rclone_upload(trk_cfg.dest, trk_cfg.link_options,
                                trk_cfg.returncode, trk_cfg.index)
  /\ Called("send_message", [itype |-> "text", item |-> <<"text">> \o trk_links'],
            TRUE)
  /\ trk_pc' = "send"
  /\ UNCHANGED <<trk_fn, trk_cfg, trk_file, trk_thumb, trk_exc>>
  /\ UNCHANGED <<runnerVars, packVars, albumVars, fetchVars, linkVars, uploadVars, spamVars, nestVars, progVars>>

\* send_message raised: the exception leaves the function, "# Cleanup" is
\* not reached
TrackSendRaised ==
  /\ trk_pc = "send"
  /\ tx_pc = "raised"
  /\ trk_exc' = tx_ret
  /\ trk_pc' = "raised"
  /\ UNCHANGED <<trk_fn, trk_cfg, trk_file, trk_thumb, trk_links>>
  /\ UNCHANGED <<runnerVars, packVars, albumVars, fetchVars, sendVars, linkVars, uploadVars, spamVars, nestVars, progVars>>

\* send_message returned: "# Cleanup": os.remove(filepath), then
\* os.remove(thumbnail) when the metadata names one
TrackCleanup ==
  /\ trk_pc = "send"
  /\ tx_pc = "returned"
  /\ \E denied_file, denied_thumb \in BOOLEAN :
       LET r1 == os_remove(trk_file, denied_file)
           r2 == IF trk_thumb = "None" THEN "removed"
                 ELSE os_remove(trk_thumb = "present", denied_thumb)
       IN  /\ trk_file' = (trk_file /\ r1 # "removed")
           /\ trk_thumb' = IF r1 = "removed" /\ r2 = "removed" /\ trk_thumb # "None"
                           THEN "gone" ELSE trk_thumb
           /\ trk_exc' = IF r1 # "removed" THEN r1
                         ELSE IF r2 # "removed" THEN r2 ELSE "None"
           /\ trk_pc' = IF trk_exc' = "None" THEN "done" ELSE "raised"
  /\ UNCHANGED <<trk_fn, trk_cfg, trk_links>>
  /\ UNCHANGED <<runnerVars, packVars, albumVars, fetchVars, sendVars, linkVars, uploadVars, spamVars, nestVars, progVars>>

TrackNext ==
  \/ TrackSendsFile
  \/ TrackSendsLinks
  \/ TrackSendRaised
  \/ TrackCleanup
  \/ CallReturns
  \/ CallRaises
  \/ CallSleeps
  \/ CallAgain

(* ======================== create_link / rclone_upload ================== *)
create_link_index_after_link(link_options, returncode, index_link) ==
  IF link_options \in {"RCLONE", "Both"} /\ returncode # 0
  THEN <<"None", "None">>
  ELSE <<IF link_options \in {"RCLONE", "Both"} THEN "rclone_link" ELSE "None",
         IF link_options \in {"Index", "Both"} /\ index_link
         THEN "index_link" ELSE "None">>

\* create_link(path, basepath): (rclone_link, index_link)
create_link(link_options, returncode, index_link) ==
  <<IF link_options \in {"RCLONE", "Both"} /\ returncode = 0
    THEN "rclone_link" ELSE "None",
    IF link_options \in {"Index", "Both"} /\ index_link
    THEN "index_link" ELSE "None">>

LinkInit ==
  /\ lk_fn \in {"create_link", "rclone_upload"}
  /\ lk_cfg \in LinkConfigs
  /\ lk_links = <<"None", "None">>
  /\ lk_pc = "start"

\* no link resolution is in progress
LinkIdle ==
  /\ lk_fn = "none"
  /\ lk_cfg = [dest |-> FALSE, link_options |-> "False", returncode |-> 0,
               index |-> FALSE]
  /\ lk_links = <<"None", "None">>
  /\ lk_pc = "idle"

CreateLink ==
  /\ lk_pc = "start"
  /\ lk_fn = "create_link"
  /\ lk_links' = create_link(lk_cfg.link_options, lk_cfg.returncode, lk_cfg.index)
  /\ lk_pc' = "done"
  /\ UNCHANGED <<lk_fn, lk_cfg>>
  /\ UNCHANGED <<runnerVars, packVars, albumVars, fetchVars, sendVars, trackVars, uploadVars, spamVars, nestVars, progVars>>

RcloneUpload ==
  /\ lk_pc = "start"
  /\ lk_fn = "rclone_upload"
  /\ lk_links' = rclone_upload(lk_cfg.dest, lk_cfg.link_options, lk_cfg.returncode,
                               lk_cfg.index)
  /\ lk_pc' = "done"
  /\ UNCHANGED <<lk_fn, lk_cfg>>
  /\ UNCHANGED <<runnerVars, packVars, albumVars, fetchVars, sendVars, trackVars, uploadVars, spamVars, nestVars, progVars>>

LinkNext ==
  \/ CreateLink
  \/ RcloneUpload

(* ============ artist_upload, album_upload, playlist_upload ============== *)
\* The three orchestrators as one call tree: artist_upload calls album_upload
\* for each album, album_upload and playlist_upload call track_upload for each
\* track.  up_log records what the call tree did, in order.
Orchestrators == {"artist_upload", "album_upload", "playlist_upload"}

\* zip_handler: the packer chosen from the upload mode
zip_handler(upload_mode) ==
  IF upload_mode = "Telegram" THEN "split_zip_folder" ELSE "zip_folder"

UploadConfigs ==
  [UPLOAD_MODE : {"Telegram", "Rclone"}, ARTIST_ZIP : BOOLEAN,
   ALBUM_ZIP : BOOLEAN, PLAYLIST_ZIP : BOOLEAN]

\* metadata: the albums of an artist, or the one album or playlist
Items == [tracks : 0..MaxTracks, poster_msg : BOOLEAN]
Metadata(fn) ==
  IF fn = "artist_upload" THEN UNION {[1..n -> Items] : n \in 0..MaxAlbums}
  ELSE [1..1 -> Items]

\* the orchestrator whose body is running
Fn == IF up_depth = 1 THEN "album_upload" ELSE up_fn

\* Config.ARTIST_ZIP, Config.ALBUM_ZIP, Config.PLAYLIST_ZIP
Flag(fn) ==
  CASE fn = "artist_upload" -> up_cfg.ARTIST_ZIP
    [] fn = "album_upload" -> up_cfg.ALBUM_ZIP
    [] fn = "playlist_upload" -> up_cfg.PLAYLIST_ZIP
    [] OTHER -> FALSE

\* the album the running orchestrator works on (0: the artist folder)
Key == IF Fn = "artist_upload" THEN 0 ELSE up_a

Ev(ev, by, a, t) == [ev |-> ev, by |-> by, a |-> a, t |-> t]

UploadInit ==
  /\ up_fn \in Orchestrators \cup {"zip_handler"}
  /\ up_cfg \in UploadConfigs
  /\ up_meta \in Metadata(up_fn)
  /\ up_depth = 0
  /\ up_a = 1
  /\ up_t = 1
  /\ up_log = <<>>
  /\ up_floods = 0
  /\ up_pc = "start"

\* no orchestrator call is in progress
UploadIdle ==
  /\ up_fn = "none"
  /\ up_cfg = [UPLOAD_MODE |-> "Telegram", ARTIST_ZIP |-> FALSE,
               ALBUM_ZIP |-> FALSE, PLAYLIST_ZIP |-> FALSE]
  /\ up_meta = <<>>
  /\ up_depth = 0
  /\ up_a = 1
  /\ up_t = 1
  /\ up_log = <<>>
  /\ up_floods = 0
  /\ up_pc = "idle"

\* "# Cleanup" shutil.rmtree(metadata['folderpath']) and the return: to the
\* loop of artist_upload when it made the call, to the caller otherwise
UploadReturn(events) ==
  /\ up_log' = up_log \o events \o <<Ev("rmtree", Fn, Key, 0)>>
  /\ IF up_depth = 1
     THEN /\ up_depth' = 0
          /\ up_a' = up_a + 1
          /\ up_pc' = "start"
     ELSE /\ up_pc' = "returned"
          /\ UNCHANGED <<up_depth, up_a>>
  /\ up_t' = 1

track_upload_removes_first(a, t) ==
  <<Ev("call", "track_upload", a, t), Ev("remove", "track_upload", a, t),
    Ev("issue", "track_upload", a, t)>>

\* track_upload up to its await: called, it issues the send of the track
track_upload_begins(a, t) ==
  <<Ev("call", "track_upload", a, t), Ev("issue", "track_upload", a, t)>>

\* zip_handler(folderpath)
UpZipHandler ==
  /\ up_pc = "start"
  /\ up_fn = "zip_handler"
  /\ up_log' = Append(up_log, Ev(zip_handler(up_cfg.UPLOAD_MODE), "zip_handler", 1, 0))
  /\ up_pc' = "returned"
  /\ UNCHANGED <<up_fn, up_cfg, up_meta, up_depth, up_a, up_t, up_floods>>
  /\ UNCHANGED <<runnerVars, packVars, albumVars, fetchVars, sendVars, trackVars, linkVars, spamVars, nestVars, progVars>>

\* Telegram and the kind's ZIP flag: create_simple_zip, then send_message 'doc'
UpZipSend ==
  /\ up_pc = "start"
  /\ Fn \in Orchestrators
  /\ up_cfg.UPLOAD_MODE = "Telegram"
  /\ Flag(Fn)
  /\ up_log' = up_log \o <<Ev("create_simple_zip", Fn, Key, 0),
                           Ev("issue", Fn, Key, 0)>>
  /\ up_pc' = "send_doc"
  /\ UNCHANGED <<up_fn, up_cfg, up_meta, up_depth, up_a, up_t, up_floods>>
  /\ UNCHANGED <<runnerVars, packVars, albumVars, fetchVars, sendVars, trackVars, linkVars, spamVars, nestVars, progVars>>

\* the document is sent: os.remove(zip_path), then the cleanup
UpDocSent ==
  /\ up_pc = "send_doc"
  /\ \E rep \in SendReplies : send_message(rep) = "return_handle"
  /\ UploadReturn(<<Ev("doc", Fn, Key, 0), Ev("rmzip", Fn, Key, 0)>>)
  /\ UNCHANGED <<up_fn, up_cfg, up_meta, up_floods>>
  /\ UNCHANGED <<runnerVars, packVars, albumVars, fetchVars, sendVars, trackVars, linkVars, spamVars, nestVars, progVars>>

\* Telegram, no ZIP flag, album or playlist: "for track in metadata['tracks']"
\* calls track_upload, which sends the track as audio
UpTrackSend ==
  /\ up_pc = "start"
  /\ Fn \in {"album_upload", "playlist_upload"}
  /\ up_cfg.UPLOAD_MODE = "Telegram"
  /\ ~Flag(Fn)
  /\ up_t <= up_meta[up_a].tracks
  /\ up_log' = up_log \o track_upload_begins(up_a, up_t)
  /\ up_pc' = "send_track"
  /\ UNCHANGED <<up_fn, up_cfg, up_meta, up_depth, up_a, up_t, up_floods>>
  /\ UNCHANGED <<runnerVars, packVars, albumVars, fetchVars, sendVars, trackVars, linkVars, spamVars, nestVars, progVars>>

\* the track is sent: track_upload removes its file and the loop goes on
UpTrackSent ==
  /\ up_pc = "send_track"
  /\ \E rep \in SendReplies : send_message(rep) = "return_handle"
  /\ up_log' = up_log \o <<Ev("audio", "track_upload", up_a, up_t),
                           Ev("remove", "track_upload", up_a, up_t)>>
  /\ up_t' = up_t + 1
  /\ up_pc' = "start"
  /\ UNCHANGED <<up_fn, up_cfg, up_meta, up_depth, up_a, up_floods>>
  /\ UNCHANGED <<runnerVars, packVars, albumVars, fetchVars, sendVars, trackVars, linkVars, spamVars, nestVars, progVars>>

\* the loop over the tracks is over: the cleanup
UpTracksDone ==
  /\ up_pc = "start"
  /\ Fn \in {"album_upload", "playlist_upload"}
  /\ up_cfg.UPLOAD_MODE = "Telegram"
  /\ ~Flag(Fn)
  /\ up_t > up_meta[up_a].tracks
  /\ UploadReturn(<<>>)
  /\ UNCHANGED <<up_fn, up_cfg, up_meta, up_floods>>
  /\ UNCHANGED <<runnerVars, packVars, albumVars, fetchVars, sendVars, trackVars, linkVars, spamVars, nestVars, progVars>>

\* Telegram, no ARTIST_ZIP: "for album in metadata['albums']" calls album_upload
UpAlbumCall ==
  /\ up_pc = "start"
  /\ Fn = "artist_upload"
  /\ up_cfg.UPLOAD_MODE = "Telegram"
  /\ ~Flag(Fn)
  /\ up_a <= Len(up_meta)
  /\ up_log' = Append(up_log, Ev("call", "album_upload", up_a, 0))
  /\ up_depth' = 1
  /\ up_t' = 1
  /\ UNCHANGED <<up_fn, up_cfg, up_meta, up_a, up_floods, up_pc>>
  /\ UNCHANGED <<runnerVars, packVars, albumVars, fetchVars, sendVars, trackVars, linkVars, spamVars, nestVars, progVars>>

\* the loop over the albums is over: the cleanup of the artist folder
UpAlbumsDone ==
  /\ up_pc = "start"
  /\ Fn = "artist_upload"
  /\ up_cfg.UPLOAD_MODE = "Telegram"
  /\ ~Flag(Fn)
  /\ up_a > Len(up_meta)
  /\ UploadReturn(<<>>)
  /\ UNCHANGED <<up_fn, up_cfg, up_meta, up_floods>>
  /\ UNCHANGED <<runnerVars, packVars, albumVars, fetchVars, sendVars, trackVars, linkVars, spamVars, nestVars, progVars>>

\* Rclone: rclone_upload of the folder, then the link text; only album_upload
\* looks at metadata.get('poster_msg') and edits that message
UpLinkMessage ==
  /\ up_pc = "start"
  /\ Fn \in Orchestrators
  /\ up_cfg.UPLOAD_MODE = "Rclone"
  /\ up_log' = up_log \o <<Ev("rclone_upload", Fn, Key, 0), Ev("issue", Fn, Key, 0)>>
  /\ up_pc' = IF Fn = "album_upload" /\ up_meta[up_a].poster_msg
              THEN "edit_poster" ELSE "send_text"
  /\ UNCHANGED <<up_fn, up_cfg, up_meta, up_depth, up_a, up_t, up_floods>>
  /\ UNCHANGED <<runnerVars, packVars, albumVars, fetchVars, sendVars, trackVars, linkVars, spamVars, nestVars, progVars>>

\* the link message is out: the cleanup
UpLinkSent ==
  /\ \/ /\ up_pc = "send_text"
        /\ \E rep \in SendReplies : send_message(rep) = "return_handle"
        /\ UploadReturn(<<Ev("text", Fn, Key, 0)>>)
     \/ /\ up_pc = "edit_poster"
        /\ \E rep \in EditReplies :
             edit_message(rep, TRUE) \in {"return_handle", "return_None"}
        /\ UploadReturn(<<Ev("edit", Fn, Key, 0)>>)
  /\ UNCHANGED <<up_fn, up_cfg, up_meta, up_floods>>
  /\ UNCHANGED <<runnerVars, packVars, albumVars, fetchVars, sendVars, trackVars, linkVars, spamVars, nestVars, progVars>>

\* the pending call is answered FloodWait: it sleeps and is issued again
UpRetry ==
  /\ up_floods < MaxFloods
  /\ \/ /\ up_pc \in {"send_doc", "send_track", "send_text"}
        /\ \E rep \in SendReplies : send_message(rep) = "sleep_and_retry"
     \/ /\ up_pc = "edit_poster"
        /\ \E rep \in EditReplies : edit_message(rep, TRUE) = "sleep_and_retry"
  /\ up_floods' = up_floods + 1
  /\ UNCHANGED <<up_fn, up_cfg, up_meta, up_depth, up_a, up_t, up_log, up_pc>>
  /\ UNCHANGED <<runnerVars, packVars, albumVars, fetchVars, sendVars, trackVars, linkVars, spamVars, nestVars, progVars>>

\* the pending call raises: no orchestrator catches, so the exception leaves
\* track_upload, album_upload and artist_upload before any of their cleanup
UpRaises ==
  /\ \/ /\ up_pc \in {"send_doc", "send_track", "send_text"}
        /\ \E rep \in SendReplies : send_message(rep) = "raise"
     \/ /\ up_pc = "edit_poster"
        /\ \E rep \in EditReplies : edit_message(rep, TRUE) = "raise"
  /\ up_log' = Append(up_log, Ev("raise", IF up_pc = "send_track" THEN "track_upload" ELSE Fn,
                                 Key, IF up_pc = "send_track" THEN up_t ELSE 0))
  /\ up_pc' = "raised"
  /\ UNCHANGED <<up_fn, up_cfg, up_meta, up_depth, up_a, up_t, up_floods>>
  /\ UNCHANGED <<runnerVars, packVars, albumVars, fetchVars, sendVars, trackVars, linkVars, spamVars, nestVars, progVars>>

UploadNext ==
  \/ UpZipHandler
  \/ UpZipSend
  \/ UpDocSent
  \/ UpTrackSend
  \/ UpTrackSent
  \/ UpTracksDone
  \/ UpAlbumCall
  \/ UpAlbumsDone
  \/ UpLinkMessage
  \/ UpLinkSent
  \/ UpRetry
  \/ UpRaises


(* ================================ antiSpam ============================= *)
\* chat and user ids
Ids == 1..MaxIds

NoCall == [uid |-> 0, cid |-> 0, revoke |-> FALSE, was |-> FALSE, ret |-> "none",
           mode |-> "none", before |-> <<>>]

\* list.remove(x): the first occurrence goes
Remove(list, x) ==
  LET first == CHOOSE k \in DOMAIN list :
                 list[k] = x /\ \A j \in 1..(k - 1) : list[j] # x
  IN  SubSeq(list, 1, first - 1) \o SubSeq(list, first + 1, Len(list))

antiSpamKeyedByUser(list, mode, uid, cid, revoke) ==
  IF revoke
  THEN [list |-> IF mode \in {"CHAT+", "USER"} /\ uid \in Range(list)
                 THEN Remove(list, uid) ELSE list,
        ret |-> "None"]
  ELSE IF mode \in {"CHAT+", "USER"}
       THEN IF uid \in Range(list) THEN [list |-> list, ret |-> "True"]
            ELSE [list |-> Append(list, uid), ret |-> "False"]
       ELSE [list |-> list, ret |-> "False"]

\* antiSpam(uid, cid, revoke) on current_user = list: the list it leaves and
\* what it returns
antiSpam(list, mode, uid, cid, revoke) ==
  IF revoke
  THEN [list |-> CASE mode = "CHAT+" /\ cid \in Range(list) -> Remove(list, cid)
                   [] mode = "USER" /\ uid \in Range(list) -> Remove(list, uid)
                   [] OTHER -> list,
        ret |-> "None"]
  ELSE CASE mode = "CHAT+" ->
              IF cid \in Range(list) THEN [list |-> list, ret |-> "True"]
              ELSE [list |-> Append(list, cid), ret |-> "False"]
         [] mode = "USER" ->
              IF uid \in Range(list) THEN [list |-> list, ret |-> "True"]
              ELSE [list |-> Append(list, uid), ret |-> "False"]
         [] OTHER -> [list |-> list, ret |-> "False"]

\* the id the mode looks at
SpamKey(mode, uid, cid) == IF mode = "CHAT+" THEN cid ELSE uid

SpamInit ==
  /\ anti_spam \in {"CHAT+", "USER", "other"}
  /\ current_user = <<>>
  /\ as_before = <<>>
  /\ as_call = NoCall
  /\ as_prev = NoCall

\* antiSpam was never called
SpamIdle ==
  /\ anti_spam = "other"
  /\ current_user = <<>>
  /\ as_before = <<>>
  /\ as_call = NoCall
  /\ as_prev = NoCall

SpamCall(uid, cid, revoke) ==
  LET r == antiSpam(current_user, anti_spam, uid, cid, revoke)
  IN  /\ current_user' = r.list
      /\ as_before' = current_user
      /\ as_call' = [uid |-> uid, cid |-> cid, revoke |-> revoke,
                     was |-> SpamKey(anti_spam, uid, cid) \in Range(current_user),
                     ret |-> r.ret, mode |-> anti_spam, before |-> current_user]
      /\ as_prev' = as_call
      /\ UNCHANGED anti_spam

\* a request comes in: antiSpam(uid, cid)
SpamRequest ==
  /\ \E uid, cid \in Ids : SpamCall(uid, cid, FALSE)
  /\ UNCHANGED <<runnerVars, packVars, albumVars, fetchVars, sendVars, trackVars, linkVars, uploadVars, nestVars, progVars>>

\* a request is over: antiSpam(uid, cid, revoke=True)
SpamRevoke ==
  /\ \E uid, cid \in Ids : SpamCall(uid, cid, TRUE)
  /\ UNCHANGED <<runnerVars, packVars, albumVars, fetchVars, sendVars, trackVars, linkVars, uploadVars, nestVars, progVars>>

\* bot_set.anti_spam is read anew by every call: between two calls the
\* setting can have been given another value
SpamSetMode ==
  /\ anti_spam' \in {"CHAT+", "USER", "other"} \ {anti_spam}
  /\ UNCHANGED <<current_user, as_before, as_call, as_prev>>
  /\ UNCHANGED <<runnerVars, packVars, albumVars, fetchVars, sendVars, trackVars, linkVars, uploadVars, nestVars, progVars>>

SpamNext ==
  \/ SpamRequest
  \/ SpamRevoke
  \/ SpamSetMode

(* ===================== run_concurrent_tasks, nested ==================== *)
\* A run_concurrent_tasks call (invocation 0) whose tasks are themselves
\* run_concurrent_tasks calls (invocation k for task k) over leaf tasks.  A
\* coroutine run_task is named by its invocation and its index in it.
Outer(k) == [run |-> 0, idx |-> k]
Inner(k, j) == [run |-> k, idx |-> j]
Children(r) ==
  IF r = 0 THEN [k \in 1..nr_total |-> Outer(k)]
  ELSE [j \in 1..nr_children |-> Inner(r, j)]
Coros == UNION {Range(Children(r)) : r \in 0..nr_total}

\* the gate invocation r uses: the semaphore it made
SharedGate(r) == 0
GateOf(r) == r

Finished(c) == nr_pc[c] \in {"returned", "raised"}

NestInit ==
  /\ nr_workers \in 1..MaxWorkers
  /\ nr_total \in 1..MaxLeaves
  /\ nr_children \in 1..MaxLeaves
  /\ nr_total * nr_children <= MaxLeaves
  /\ nr_sem = [r \in 0..nr_total |-> NewSemaphore(nr_workers)]
  /\ nr_pc = [c \in Coros |-> "start"]
  /\ nr_ready = Children(0)
  /\ nr_io = {}
  /\ nr_out = [c \in Coros |-> "none"]
  /\ nr_gather = [r \in 0..nr_total |-> "pending"]
  /\ nr_queued = {}

\* no nested run is in progress
NestIdle ==
  /\ nr_workers = 1
  /\ nr_total = 0
  /\ nr_children = 0
  /\ nr_sem = <<>>
  /\ nr_pc = <<>>
  /\ nr_ready = <<>>
  /\ nr_io = {}
  /\ nr_out = <<>>
  /\ nr_gather = <<>>
  /\ nr_queued = {}

\* "result = await task" begins: a leaf suspends on its I/O; a nested
\* run_concurrent_tasks makes its gather, which schedules its children
NestAwait(c, rdy) ==
  /\ nr_pc' = [nr_pc EXCEPT ![c] = "await_task"]
  /\ IF c.run = 0
     THEN /\ nr_ready' = rdy \o Children(c.idx)
          /\ UNCHANGED nr_io
     ELSE /\ nr_ready' = rdy
          /\ nr_io' = nr_io \cup {c}

\* run_task starts: "async with semaphore" finds a free slot ...
NestAcquire ==
  /\ nr_ready # <<>>
  /\ LET c == Head(nr_ready)
         g == GateOf(c.run)
     IN  /\ nr_pc[c] = "start"
         /\ ~locked(nr_sem[g])
         /\ nr_sem' = [nr_sem EXCEPT ![g].value = @ - 1]
         /\ NestAwait(c, Tail(nr_ready))
  /\ UNCHANGED <<nr_workers, nr_total, nr_children, nr_out, nr_gather, nr_queued>>
  /\ UNCHANGED <<runnerVars, packVars, albumVars, fetchVars, sendVars, trackVars, linkVars, uploadVars, spamVars, progVars>>

\* ... or queues behind the gate of its invocation
NestEnqueue ==
  /\ nr_ready # <<>>
  /\ LET c == Head(nr_ready)
         g == GateOf(c.run)
     IN  /\ nr_pc[c] = "start"
         /\ locked(nr_sem[g])
         /\ nr_sem' = [nr_sem EXCEPT
                         ![g].waiters = Append(@, [task |-> c, done |-> FALSE])]
         /\ nr_pc' = [nr_pc EXCEPT ![c] = "acquire_wait"]
         /\ nr_queued' = nr_queued \cup {c}
  /\ nr_ready' = Tail(nr_ready)
  /\ UNCHANGED <<nr_workers, nr_total, nr_children, nr_io, nr_out, nr_gather>>
  /\ UNCHANGED <<runnerVars, packVars, albumVars, fetchVars, sendVars, trackVars, linkVars, uploadVars, spamVars, progVars>>

\* a woken waiter resumes inside acquire() and enters the block
NestAdmit ==
  /\ nr_ready # <<>>
  /\ LET c == Head(nr_ready)
         g == GateOf(c.run)
     IN  /\ nr_pc[c] = "acquire_wait"
         /\ nr_sem' = [nr_sem EXCEPT ![g] = Leave(@, c)]
         /\ NestAwait(c, Tail(nr_ready) \o LeaveWoken(nr_sem[g], c))
  /\ UNCHANGED <<nr_workers, nr_total, nr_children, nr_out, nr_gather, nr_queued>>
  /\ UNCHANGED <<runnerVars, packVars, albumVars, fetchVars, sendVars, trackVars, linkVars, uploadVars, spamVars, progVars>>

\* the I/O of a leaf task ends, with a value or an exception
NestLeafEnds(c) ==
  /\ c \in nr_io
  /\ nr_io' = nr_io \ {c}
  /\ \E o \in {"value", "raise"} : nr_out' = [nr_out EXCEPT ![c] = o]
  /\ nr_ready' = Append(nr_ready, c)
  /\ UNCHANGED <<nr_workers, nr_total, nr_children, nr_sem, nr_pc, nr_gather,
                 nr_queued>>
  /\ UNCHANGED <<runnerVars, packVars, albumVars, fetchVars, sendVars, trackVars, linkVars, uploadVars, spamVars, progVars>>

\* "await task" is over in the coroutine at the head of the queue: it leaves
\* "async with semaphore", by return or by exception, which releases the slot;
\* gather's done-callback then resumes the awaiting caller at the first
\* exception or when the last child has finished
NestExit ==
  /\ nr_ready # <<>>
  /\ LET c == Head(nr_ready)
         r == c.run
         g == GateOf(r)
         raised == nr_out[c] = "raise"
         last == \A d \in Range(Children(r)) \ {c} : Finished(d)
         settles == nr_gather[r] = "pending" /\ (raised \/ last)
     IN  /\ nr_pc[c] = "await_task"
         /\ nr_sem' = [nr_sem EXCEPT ![g] = release(@)]
         /\ nr_pc' = [nr_pc EXCEPT ![c] = IF raised THEN "raised" ELSE "returned"]
         /\ nr_gather' = IF settles
                         THEN [nr_gather EXCEPT
                                 ![r] = IF raised THEN "raised" ELSE "returned"]
                         ELSE nr_gather
         /\ nr_out' = IF settles /\ r # 0
                      THEN [nr_out EXCEPT
                              ![Outer(r)] = IF raised THEN "raise" ELSE "value"]
                      ELSE nr_out
         /\ nr_ready' = Tail(nr_ready) \o Released(nr_sem[g])
                          \o (IF settles /\ r # 0 THEN <<Outer(r)>> ELSE <<>>)
  /\ UNCHANGED <<nr_workers, nr_total, nr_children, nr_io, nr_queued>>
  /\ UNCHANGED <<runnerVars, packVars, albumVars, fetchVars, sendVars, trackVars, linkVars, uploadVars, spamVars, progVars>>

NestNext ==
  \/ NestAcquire
  \/ NestEnqueue
  \/ NestAdmit
  \/ \E c \in Coros : NestLeafEnds(c)
  \/ NestExit

(* ================== run_task: the percentage of a long run ============= *)
\* "completed += 1" and "progress = int((completed / total) * 100)", with no
\* await between them, for the tasks of one run that return one after another
ProgressInit ==
  /\ pg_total \in 1..MaxTotal
  /\ pg_completed = 0
  /\ pg_shown = <<>>

\* no such run is in progress
ProgressIdle ==
  /\ pg_total = 0
  /\ pg_completed = 0
  /\ pg_shown = <<>>

\* one more task returned
ProgressStep ==
  /\ pg_completed < pg_total
  /\ pg_completed' = pg_completed + 1
  /\ pg_shown' = Append(pg_shown, IntOfRatioTimes100(pg_completed + 1, pg_total))
  /\ UNCHANGED pg_total
  /\ UNCHANGED <<runnerVars, packVars, albumVars, fetchVars, sendVars, trackVars, linkVars, uploadVars, spamVars, nestVars>>

ProgressNext ==
  \/ ProgressStep

(* ============================== download_file ========================== *)
\* what one "session.get(url)" attempt can meet: an answer with a status and
\* the whole body, or an exception raised while requesting or while the body
\* is streamed into the file opened with 'wb'
Attempts ==
  {[status |-> s, error |-> "None", at |-> "None"] : s \in {200, 404, 500}}
    \cup {[status |-> IF a = "body" THEN 200 ELSE 0, error |-> e, at |-> a] :
            e \in {"ClientError", "TimeoutError", "Exception"},
            a \in {"request", "body"}}

\* except (aiohttp.ClientError, asyncio.TimeoutError)
RetriedEveryError(error) == error # "None"
Retried(error) == error \in {"ClientError", "TimeoutError"}

\* await asyncio.sleep(2 ** attempt)
BackoffFromZero(n) == Pow2(n - 1)
Backoff(n) == Pow2(n)

NotReturned == [kind |-> "pending", detail |-> <<>>]

\* what the body of the loop does with the outcome o of attempt n
download_attempt(o, n, r) ==
  IF o.error = "None"
  THEN IF o.status = 200
       THEN [do |-> "return", value |-> [kind |-> "None", detail |-> <<>>]]
       ELSE [do |-> "return",
             value |-> [kind |-> "HTTP Status", detail |-> <<o.status>>]]
  ELSE IF Retried(o.error)
       THEN IF n = r
            THEN [do |-> "return",
                  value |-> [kind |-> "Failed after", detail |-> <<r, o.error>>]]
            ELSE [do |-> "sleep", value |-> NotReturned]
       ELSE [do |-> "return",
             value |-> [kind |-> "Unexpected error", detail |-> <<o.error>>]]

\* the destination after an attempt: open(path, 'wb') truncates it as soon as
\* a 200 answer is there, the chunks follow
Written(file, o) ==
  IF o.status # 200 THEN file
  ELSE IF o.error = "None" THEN "body" ELSE "partial"

FetchInit ==
  /\ retries \in (0 - 1)..MaxRetries
  /\ attempt = 1
  /\ dl_file \in {"absent", "previous"}
  /\ dl_log = <<>>
  /\ dl_slept = <<>>
  /\ dl_ret = NotReturned
  /\ dl_pc = "get"

\* no download_file call is in progress
FetchIdle ==
  /\ retries = 0
  /\ attempt = 1
  /\ dl_file = "absent"
  /\ dl_log = <<>>
  /\ dl_slept = <<>>
  /\ dl_ret = NotReturned
  /\ dl_pc = "idle"

\* an attempt ends the call: success, bad status, unexpected error, or a
\* network error on the last attempt
AttemptReturns ==
  /\ dl_pc = "get"
  /\ attempt <= retries
  /\ \E o \in Attempts :
       LET d == download_attempt(o, attempt, retries)
       IN  /\ d.do = "return"
           /\ dl_log' = Append(dl_log, o)
           /\ dl_file' = Written(dl_file, o)
           /\ dl_ret' = d.value
  /\ dl_pc' = "returned"
  /\ UNCHANGED <<retries, attempt, dl_slept>>
  /\ UNCHANGED <<runnerVars, packVars, albumVars, sendVars, trackVars, linkVars, uploadVars, spamVars, nestVars, progVars>>

\* a network error or timeout before the last attempt: the backoff sleep
AttemptSleeps ==
  /\ dl_pc = "get"
  /\ attempt <= retries
  /\ \E o \in Attempts :
       /\ download_attempt(o, attempt, retries).do = "sleep"
       /\ dl_log' = Append(dl_log, o)
       /\ dl_file' = Written(dl_file, o)
  /\ dl_slept' = Append(dl_slept, Backoff(attempt))
  /\ dl_pc' = "sleep"
  /\ UNCHANGED <<retries, attempt, dl_ret>>
  /\ UNCHANGED <<runnerVars, packVars, albumVars, sendVars, trackVars, linkVars, uploadVars, spamVars, nestVars, progVars>>

\* the sleep is over: the next turn of the loop
BackoffEnds ==
  /\ dl_pc = "sleep"
  /\ attempt' = attempt + 1
  /\ dl_pc' = "get"
  /\ UNCHANGED <<retries, dl_file, dl_log, dl_slept, dl_ret>>
  /\ UNCHANGED <<runnerVars, packVars, albumVars, sendVars, trackVars, linkVars, uploadVars, spamVars, nestVars, progVars>>

\* range(1, retries + 1) is empty: the function ends without a return
LoopEmpty ==
  /\ dl_pc = "get"
  /\ attempt > retries
  /\ dl_ret' = [kind |-> "None", detail |-> <<>>]
  /\ dl_pc' = "returned"
  /\ UNCHANGED <<retries, attempt, dl_file, dl_log, dl_slept>>
  /\ UNCHANGED <<runnerVars, packVars, albumVars, sendVars, trackVars, linkVars, uploadVars, spamVars, nestVars, progVars>>

FetchNext ==
  \/ AttemptReturns
  \/ AttemptSleeps
  \/ BackoffEnds
  \/ LoopEmpty

RunnerNext ==
  \/ Acquire
  \/ Enqueue
  \/ Admit
  \/ \E i \in Tasks : TaskEnds(i)
  \/ TaskRaised
  \/ TaskDone
  \/ TaskDoneProgress
  \/ \E i \in Tasks : EditAnswers(i)
  \/ EditReturns
  \/ EditRaises
  \/ EditSleeps
  \/ \E i \in Tasks : TimerFires(i)
  \/ EditRetries

Init == RunnerInit /\ PackIdle /\ AlbumIdle /\ FetchIdle /\ SendIdle
  /\ TrackIdle /\ LinkIdle /\ UploadIdle /\ SpamIdle /\ NestIdle /\ ProgressIdle
Next == RunnerNext
Spec == Init /\ [][Next]_vars

InitPack == PackInit /\ RunnerIdle /\ AlbumIdle /\ FetchIdle /\ SendIdle
  /\ TrackIdle /\ LinkIdle /\ UploadIdle /\ SpamIdle /\ NestIdle /\ ProgressIdle
NextPack == PackNext
SpecPack == InitPack /\ [][NextPack]_vars

InitAlbum == AlbumInit /\ RunnerIdle /\ PackIdle /\ FetchIdle /\ SendIdle
  /\ TrackIdle /\ LinkIdle /\ UploadIdle /\ SpamIdle /\ NestIdle /\ ProgressIdle
NextAlbum == AlbumNext
SpecAlbum == InitAlbum /\ [][NextAlbum]_vars

InitFetch == FetchInit /\ RunnerIdle /\ PackIdle /\ AlbumIdle /\ SendIdle
  /\ TrackIdle /\ LinkIdle /\ UploadIdle /\ SpamIdle /\ NestIdle /\ ProgressIdle
NextFetch == FetchNext
SpecFetch == InitFetch /\ [][NextFetch]_vars

InitSend == SendInit /\ RunnerIdle /\ PackIdle /\ AlbumIdle /\ FetchIdle
  /\ TrackIdle /\ LinkIdle /\ UploadIdle /\ SpamIdle /\ NestIdle /\ ProgressIdle
NextSend == SendNext
SpecSend == InitSend /\ [][NextSend]_vars

InitTrack == TrackInit /\ RunnerIdle /\ PackIdle /\ AlbumAbsent /\ FetchIdle /\ SendIdle
  /\ LinkIdle /\ UploadIdle /\ SpamIdle /\ NestIdle /\ ProgressIdle
NextTrack == TrackNext
SpecTrack == InitTrack /\ [][NextTrack]_vars

InitLink == LinkInit /\ RunnerIdle /\ PackIdle /\ AlbumIdle /\ FetchIdle /\ SendIdle
  /\ TrackIdle /\ UploadIdle /\ SpamIdle /\ NestIdle /\ ProgressIdle
NextLink == LinkNext
SpecLink == InitLink /\ [][NextLink]_vars

InitUpload == UploadInit /\ RunnerIdle /\ PackIdle /\ AlbumIdle /\ FetchIdle /\ SendIdle
  /\ TrackIdle /\ LinkIdle /\ SpamIdle /\ NestIdle /\ ProgressIdle
NextUpload == UploadNext
SpecUpload == InitUpload /\ [][NextUpload]_vars

InitSpam == SpamInit /\ RunnerIdle /\ PackIdle /\ AlbumIdle /\ FetchIdle /\ SendIdle
  /\ TrackIdle /\ LinkIdle /\ UploadIdle /\ NestIdle /\ ProgressIdle
NextSpam == SpamNext
SpecSpam == InitSpam /\ [][NextSpam]_vars

\* the event loop resumes what is ready and every I/O of a task ends
InitNest == NestInit /\ RunnerIdle /\ PackIdle /\ AlbumIdle /\ FetchIdle /\ SendIdle
  /\ TrackIdle /\ LinkIdle /\ UploadIdle /\ SpamIdle /\ ProgressIdle
NextNest == NestNext
SpecNest == InitNest /\ [][NextNest]_vars /\ WF_vars(NextNest)

InitProgress == ProgressInit /\ RunnerIdle /\ PackIdle /\ AlbumIdle /\ FetchIdle
  /\ SendIdle /\ TrackIdle /\ LinkIdle /\ UploadIdle /\ SpamIdle /\ NestIdle
NextProgress == ProgressNext
SpecProgress == InitProgress /\ [][NextProgress]_vars

(* ======================= properties: run_concurrent_tasks ============== *)
\* the run_task coroutines inside "async with semaphore"
Running == {i \in Tasks : pc[i] \in {"await_task", "await_edit", "sleep"}}
\* ... and the woken waiters, which hold a slot already
Holding == Running \cup {i \in Tasks : \E k \in DOMAIN semaphore.waiters :
                           semaphore.waiters[k] = [task |-> i, done |-> TRUE]}

TypeOK ==
  /\ semaphore.value \in 0..MAX_WORKERS
  /\ completed \in 0..total
  /\ Cardinality(Holding) + semaphore.value = MAX_WORKERS

\* C1: at every instant the number of tasks admitted past the gate and not yet
\* finished is at most the concurrency limit MAX_WORKERS.
C1_ConcurrencyBound ==
  /\ Cardinality(Range(admitted) \ Range(done_order)) <= MAX_WORKERS
  /\ Cardinality(Running) <= MAX_WORKERS

\* the limit is reached while a task is kept waiting behind the gate
C1_Witness ==
  /\ MAX_WORKERS = 2
  /\ Cardinality(Range(admitted) \ Range(done_order)) = 2
  /\ \E i \in Tasks : pc[i] = "acquire_wait"

\* C2: the list run_concurrent_tasks returns holds at position i the result of
\* task ti, whatever the order in which the tasks completed.
C2_SubmissionOrder ==
  outer = "returned" =>
    /\ Len(returned) = total
    /\ \A i \in Tasks : returned[i] = tasks[i]

\* a run returned although its tasks finished in another order than submitted
C2_Witness ==
  /\ outer = "returned"
  /\ total >= 2
  /\ done_order[1] # 1
  /\ \A i \in Tasks : returned[i].of = i

\* C3: a failing task does not make the runner raise: once every task is over
\* the runner has returned one result per task, each failure and each success
\* at its task's index. (Stated for runs without a progress handle, where no
\* status edit can fail.)
C3_FailureStaysInside ==
  ~progress_details =>
    /\ outer # "raised"
    /\ Len(done_order) = total =>
         /\ outer = "returned"
         /\ Len(returned) = total
         /\ \A i \in Tasks : returned[i] = tasks[i]

\* C4: admission is FIFO: tasks pass the gate in submission order, a freed
\* slot goes to the earliest-submitted task still waiting.
C4_FifoAdmission ==
  /\ \A k \in DOMAIN admitted : admitted[k] = k
  /\ \A k, l \in DOMAIN semaphore.waiters :
       k < l => /\ semaphore.waiters[k].task < semaphore.waiters[l].task
                /\ semaphore.waiters[l].done => semaphore.waiters[k].done

\* a freed slot has been handed to task 2, the first of two queued tasks
C4_Witness ==
  semaphore.waiters = <<[task |-> 2, done |-> TRUE], [task |-> 3, done |-> FALSE]>>

\* C5: a failed refresh of the status message never makes the run fail: when
\* no task raised, no run_task raises and the runner does not raise.
C5_RefreshFailureSwallowed ==
  (\A i \in Tasks : tasks[i].kind # "raise") =>
    /\ outer # "raised"
    /\ \A i \in Tasks : pc[i] # "raised"

\* the tasks whose "await task" is over (with a value or an exception)
Completed == {i \in Tasks : tasks[i].kind \in {"value", "failure", "raise"}
                            /\ pc[i] # "await_task"}

\* C6: with a progress handle every completion of a task, successful or
\* failed, adds exactly one to completed, 0 <= completed <= total, and the
\* k-th percentage shown is floor(k * 100 / total).
C6_CounterCountsCompletions ==
  progress_details =>
    /\ completed = Cardinality(Completed)
    /\ completed \in 0..total
    /\ Len(shown) <= completed
    /\ \A k \in DOMAIN shown : shown[k] = (k * 100) \div total

(* ========================= properties: split_zip_folder ================ *)
\* the sizes of the files of an archive, summed
ContentSize(z) == SumSeq([k \in DOMAIN z.members |-> tree[z.members[k]]])

\* C7: every archive written holds at most MAX_SIZE of files, unless it
\* holds exactly one file and that file alone is larger than MAX_SIZE.
C7_SplitSize ==
  \A z \in zips :
    \/ 10 * ContentSize(z) <= MAX_SIZE
    \/ Len(z.members) = 1 /\ 10 * tree[z.members[1]] > MAX_SIZE

\* packing returned a full archive of several files and an archive made of
\* one oversized file
C7_Witness ==
  /\ pack_pc = "returned"
  /\ \E z \in zips : Len(z.members) = 1 /\ 10 * tree[z.members[1]] > MAX_SIZE
  /\ \E z \in zips : Len(z.members) >= 2 /\ 10 * (ContentSize(z) + 600) > MAX_SIZE

\* the archive a returned path names
ArchiveAt(path) == CHOOSE z \in zips : z.path = path
\* the places (archive k of the returned list, position j in it) holding file f
PlacesOf(f) ==
  {<<k, j>> \in (DOMAIN zip_paths) \X (1..Len(tree)) :
     /\ \E z \in zips : z.path = zip_paths[k]
     /\ j <= Len(ArchiveAt(zip_paths[k]).members)
     /\ ArchiveAt(zip_paths[k]).members[j] = f}

\* C8: when split_zip_folder returns, every file of the tree is in exactly one
\* of the returned archives, and at no time is a file in two of them.
C8_Completeness ==
  /\ \A f \in DOMAIN tree : Cardinality(PlacesOf(f)) <= 1
  /\ pack_pc = "returned" =>
       /\ \A f \in DOMAIN tree : Cardinality(PlacesOf(f)) = 1
       /\ \A k \in DOMAIN zip_paths : \E z \in zips : z.path = zip_paths[k]
       /\ \A z \in zips : Range(z.members) \subseteq DOMAIN tree

\* a tree of at least three files was packed into at least two archives
C8_Witness ==
  /\ pack_pc = "returned"
  /\ Len(tree) >= 3
  /\ Len(zip_paths) >= 2

\* C9: no archive is empty: in particular no zero-file archive is sealed
\* ahead of a file larger than MAX_SIZE met while the batch is empty.
C9_NoEmptyArchive == \A z \in zips : z.members # <<>>

(* =========================== properties: album_upload ================== *)
AlbumContentSize(z) == SumSeq([k \in DOMAIN z.members |-> album[z.members[k]]])

\* C10: the 12-track, 3.5 GiB album sent as an archive under Telegram ends as
\* exactly 2 archives, the second named ".part2", each within MAX_SIZE, and
\* the source directory is removed.
C10_ScenarioTwoArchives ==
  (album = ScenarioAlbum /\ UPLOAD_MODE = "Telegram" /\ ALBUM_ZIP /\ alb_pc = "done") =>
    /\ Len(alb_made) = 2
    /\ alb_made[2].path = ZipPath("folderpath", 2)
    /\ \A k \in DOMAIN alb_made : 10 * AlbumContentSize(alb_made[k]) <= MAX_SIZE
    /\ ~alb_dir
    /\ alb_files = {}

(* ========================= properties: download_file =================== *)
\* C14: a definitive failure is never retried: an attempt that got a
\* non-success status, or raised an error that is neither a network error nor
\* a timeout, is the last attempt, whichever attempt it is; the call returns
\* that error and does not sleep after it.
C14_DefinitiveNotRetried ==
  \A k \in DOMAIN dl_log :
    LET o == dl_log[k]
        bad_status == o.error = "None" /\ o.status # 200
        unexpected == o.error \notin {"None", "ClientError", "TimeoutError"}
    IN  bad_status \/ unexpected =>
          /\ k = Len(dl_log)
          /\ dl_pc = "returned"
          /\ Len(dl_slept) = k - 1
          /\ dl_ret = IF bad_status
                      THEN [kind |-> "HTTP Status", detail |-> <<o.status>>]
                      ELSE [kind |-> "Unexpected error", detail |-> <<o.error>>]

\* the second attempt, made after a network error, got a bad status
C14_Witness ==
  /\ dl_pc = "returned"
  /\ Len(dl_log) = 2
  /\ dl_log[1].error = "ClientError"
  /\ dl_log[2].error = "None" /\ dl_log[2].status = 404
  /\ retries = 3

\* C15: for retries = n >= 1 there are at most n attempts; the k-th sleep
\* lasts 2^k seconds and follows failed attempt k, and there is none after
\* attempt n; when every attempt met a network error or a timeout the call
\* made exactly n attempts and returns the failure that carries the last
\* error; no attempt follows a successful one.
C15_BoundedBackoff ==
  retries >= 1 =>
    /\ Len(dl_log) <= retries
    /\ dl_slept = [k \in 1..Len(dl_slept) |-> 2^k]
    /\ Len(dl_slept) <= retries - 1
    /\ dl_pc = "sleep" => Len(dl_slept) = Len(dl_log)
    /\ dl_pc = "get" => Len(dl_slept) = Len(dl_log) /\ attempt = Len(dl_log) + 1
    /\ dl_pc = "returned" => Len(dl_slept) = Len(dl_log) - 1
    /\ ( /\ dl_pc = "returned"
         /\ \A k \in DOMAIN dl_log : dl_log[k].error \in {"ClientError", "TimeoutError"} )
       => /\ Len(dl_log) = retries
          /\ dl_ret = [kind |-> "Failed after",
                       detail |-> <<retries, dl_log[retries].error>>]
    /\ \A k \in DOMAIN dl_log :
         dl_log[k].error = "None" /\ dl_log[k].status = 200 =>
           /\ k = Len(dl_log)
           /\ dl_pc = "returned"
           /\ dl_ret.kind = "None"

\* three attempts, each met by a connection error: slept 2 s then 4 s
C15_Witness ==
  /\ retries = 3
  /\ dl_pc = "returned"
  /\ Len(dl_log) = 3
  /\ \A k \in 1..3 : dl_log[k].error = "ClientError" /\ dl_log[k].at = "request"
  /\ dl_slept = <<2, 4>>
  /\ dl_ret = [kind |-> "Failed after", detail |-> <<3, "ClientError">>]

(* =================== properties: send_message / edit_message =========== *)
\* C18: send_message never raises to its caller: whatever the transport
\* answers, the call ends by returning a handle or an error value.
C18_SendNeverRaises ==
  tx_fn = "send_message" => tx_pc # "raised"

\* C19: every FloodWait answer to send_message is followed by a sleep of the
\* seconds it names and by one more call with the arguments of the first;
\* the calls made are one more than the FloodWait answers received, and the
\* first answer that is not a FloodWait ends the call: no call follows it.
C19_SendRetriesEveryFlood ==
  tx_fn = "send_message" =>
    /\ tx_slept = [k \in 1..Len(FloodsOf(tx_replies)) |-> FloodsOf(tx_replies)[k].value]
    /\ \A k \in DOMAIN tx_calls : tx_calls[k] = tx_args
    /\ Len(tx_calls) = 1 + Len(tx_slept) - (IF tx_pc = "sleep" THEN 1 ELSE 0)
    /\ Len(tx_replies) = Len(tx_calls) - (IF tx_pc = "call" THEN 1 ELSE 0)
    /\ \A k \in DOMAIN tx_replies :
         tx_replies[k].kind # "FloodWait" =>
           k = Len(tx_replies) /\ tx_pc \in {"returned", "raised"}
    /\ tx_pc \in {"returned", "raised"} =>
         tx_replies[Len(tx_replies)].kind # "FloodWait"

\* two rate limits in a row, of 3 s and 1 s, then the document is sent
C19_Witness ==
  /\ tx_fn = "send_message"
  /\ tx_args.itype = "doc"
  /\ tx_pc = "returned"
  /\ tx_ret = "handle"
  /\ Len(tx_calls) = 3
  /\ tx_slept = <<3, 1>>

\* C20: edit_message returns None, without raising, when the transport says
\* the message is not modified; on a FloodWait it sleeps and calls again when
\* antiflood is on, and returns None at once, with no sleep and no second
\* call, when antiflood is off.
C20_EditOptOut ==
  tx_fn = "edit_message" =>
    /\ \A k \in DOMAIN tx_replies :
         tx_replies[k].kind = "MessageNotModified" =>
           k = Len(tx_replies) /\ tx_pc = "returned" /\ tx_ret = "None"
    /\ tx_antiflood =>
         /\ tx_slept = [k \in 1..Len(FloodsOf(tx_replies)) |->
                          FloodsOf(tx_replies)[k].value]
         /\ Len(tx_calls) = 1 + Len(tx_slept) - (IF tx_pc = "sleep" THEN 1 ELSE 0)
         /\ tx_pc \in {"returned", "raised"} =>
              tx_replies[Len(tx_replies)].kind # "FloodWait"
    /\ ~tx_antiflood =>
         /\ tx_slept = <<>>
         /\ Len(tx_calls) = 1
         /\ \A k \in DOMAIN tx_replies :
              tx_replies[k].kind = "FloodWait" => tx_pc = "returned" /\ tx_ret = "None"

\* a caller that opted out got None for a rate-limited edit
C20_Witness ==
  /\ tx_fn = "edit_message"
  /\ ~tx_antiflood
  /\ tx_pc = "returned"
  /\ tx_ret = "None"
  /\ Len(tx_replies) = 1 /\ tx_replies[1].kind = "FloodWait"
  /\ tx_slept = <<>>

(* ============ properties: track_upload / album_upload / links ========== *)
\* C11: every orchestration call ends cleaned up, on every exit path: once
\* album_upload has returned or raised, no file of the album, no archive made
\* for it and no source directory is left on disk.
C11_CleanupOnEveryExit ==
  alb_pc \in {"done", "raised"} =>
    /\ alb_files = {}
    /\ ~alb_dir
    /\ alb_zips = {}

\* C12: a delivery that fails for good is not raised to the caller of the
\* orchestration: the call cleans up and returns.
C12_DeliveryErrorNotRaised ==
  (\E k \in DOMAIN tx_replies : tx_replies[k].kind = "RPCError") =>
    /\ trk_pc # "raised"
    /\ trk_exc = "None"

\* C13: a removal that fails during cleanup is not raised: no orchestration
\* call raises the error of an os.remove.
C13_CleanupFailureNotRaised ==
  trk_exc \notin {"FileNotFoundError", "PermissionError"}

C21_RefreshNeverStalls ==
  \A i \in Tasks : pc[i] # "sleep"

(* ==================== properties: split_zip_folder, continued ========== *)
\* C23: the k-th archive sealed is named base.zip for k = 1 and
\* base.partk.zip for k >= 2; the names are pairwise distinct, each names one
\* archive on disk, and the list follows the order of sealing: the files of
\* an earlier entry were all walked before the files of a later one.
C23_ArchiveNames ==
  /\ \A k \in DOMAIN zip_paths :
       zip_paths[k] = IF k = 1 THEN <<"folderpath", ".zip">>
                      ELSE <<"folderpath", ".part", k, ".zip">>
  /\ \A k, l \in DOMAIN zip_paths : k # l => zip_paths[k] # zip_paths[l]
  /\ {z.path : z \in zips} = Range(zip_paths)
  /\ Cardinality(zips) = Len(zip_paths)
  /\ \A y, z \in zips : \A k, l \in DOMAIN zip_paths :
       (y.path = zip_paths[k] /\ z.path = zip_paths[l] /\ k < l) =>
         \A f \in Range(y.members), g \in Range(z.members) : f < g

\* packing returned three archives
C23_Witness ==
  /\ pack_pc = "returned"
  /\ Len(zip_paths) = 3
  /\ \A z \in zips : z.members # <<>>

(* ======================= properties: packing and policy ================ *)
\* C24: a file written into an archive is deleted from the source tree: no
\* file is at once in a finished archive and still in the tree.
C24_PackedFilesDeleted ==
  /\ \A z \in zips : Range(z.members) \cap disk = {}
  /\ \A z \in alb_zips : Range(z.members) \cap alb_files = {}

\* how many times the call tree did e
Times(e) == Cardinality({k \in DOMAIN up_log : up_log[k] = e})

\* the top-level call is over, by return or by exception
Over == up_pc \in {"returned", "raised"}

Packers == {"create_simple_zip", "split_zip_folder", "zip_folder"}

\* C25: an archive is made only under Telegram, and then by a single-archive
\* packer, once; under Rclone no packer runs.
C25_PackingFollowsChannel ==
  \A k \in DOMAIN up_log :
    up_log[k].ev \in Packers =>
      /\ up_cfg.UPLOAD_MODE = "Telegram"
      /\ up_log[k].ev \in {"create_simple_zip", "zip_folder"}
      /\ Times(up_log[k]) = 1

\* C26: once an album or playlist sent track by track is over, track_upload
\* was called once for every track, whatever happened to the other tracks.
C26_EveryChildDelivered ==
  (/\ Over
   /\ up_fn \in {"album_upload", "playlist_upload"}
   /\ up_cfg.UPLOAD_MODE = "Telegram"
   /\ ~Flag(up_fn))
  => \A t \in 1..up_meta[1].tracks : Times(Ev("call", "track_upload", 1, t)) = 1

\* the children of item a of kind fn were each handed to their own
\* orchestrator n times
Handed(fn, a, n) ==
  IF fn = "artist_upload"
  THEN \A b \in DOMAIN up_meta : Times(Ev("call", "album_upload", b, 0)) = n
  ELSE \A t \in 1..up_meta[a].tracks : Times(Ev("call", "track_upload", a, t)) = n

Archived(fn, a) ==
  Times(Ev("create_simple_zip", fn, IF fn = "artist_upload" THEN 0 ELSE a, 0))

PolicyApplied(fn, a) ==
  IF Flag(fn)
  THEN /\ Handed(fn, a, 0)
       /\ up_cfg.UPLOAD_MODE = "Telegram" => Archived(fn, a) = 1
  ELSE /\ Archived(fn, a) = 0
       /\ Handed(fn, a, 1)

\* C27: once the call is over, every level it reached either archived its
\* item and handed no child on (flag on), or made no archive and handed each
\* child once to the child's own orchestrator (flag off).
C27_SamePolicyEveryLevel ==
  (Over /\ up_fn \in Orchestrators) =>
    /\ PolicyApplied(up_fn, 1)
    /\ up_fn = "artist_upload" =>
         \A a \in DOMAIN up_meta :
           (Times(Ev("rmtree", "album_upload", a, 0)) = 1) =>
             PolicyApplied("album_upload", a)

\* C28: an album or playlist delivered under Rclone edited its poster message
\* once and sent nothing when it has one, and sent one message and edited
\* nothing when it has none.
C28_LinkMessageInPlace ==
  (/\ up_pc = "returned"
   /\ up_fn \in {"album_upload", "playlist_upload"}
   /\ up_cfg.UPLOAD_MODE = "Rclone")
  => IF up_meta[1].poster_msg
     THEN Times(Ev("edit", up_fn, 1, 0)) = 1 /\ Times(Ev("text", up_fn, 1, 0)) = 0
     ELSE Times(Ev("text", up_fn, 1, 0)) = 1 /\ Times(Ev("edit", up_fn, 1, 0)) = 0

\* C29: once track_upload or music_video_upload is over, whether the delivery
\* succeeded or failed, the thumbnail named by the metadata is no longer on
\* disk (unless a removal itself was refused).
C29_ThumbnailDeletedEitherWay ==
  (/\ trk_pc \in {"done", "raised"}
   /\ trk_exc \notin {"FileNotFoundError", "PermissionError"})
  => trk_thumb # "present"

(* ========================== properties: antiSpam ======================= *)
\* C30: in the modes CHAT+ and USER, a request from an id not in the list is
\* admitted (False) and inserts the id; a request from an id in the list is
\* rejected (True) and leaves the list as it was; a completion leaves the id
\* out of the list; and no call changes the membership of any other id.
C30_AntiSpamLifecycle ==
  (as_call.mode \in {"CHAT+", "USER"}) =>
    LET id == SpamKey(as_call.mode, as_call.uid, as_call.cid)
    IN  /\ (~as_call.revoke /\ ~as_call.was) =>
              as_call.ret = "False" /\ id \in Range(current_user)
        /\ (~as_call.revoke /\ as_call.was) =>
              as_call.ret = "True" /\ current_user = as_before
        /\ as_call.revoke => id \notin Range(current_user)
        /\ \A j \in Ids \ {id} :
              j \in Range(current_user) <=> j \in Range(as_before)
        /\ as_call.was <=> id \in Range(as_before)

\* an id is admitted again right after the completion that removed it, while
\* another id is still in the list
C30_Witness ==
  /\ as_call.mode = "CHAT+" /\ as_prev.mode = "CHAT+"
  /\ as_prev.revoke /\ as_prev.was
  /\ ~as_call.revoke /\ as_call.ret = "False"
  /\ as_prev.cid = as_call.cid
  /\ as_call.uid # as_call.cid
  /\ Len(current_user) = 2

(* ================ properties: run_concurrent_tasks, nested ============= *)
\* C22: for every MAX_WORKERS >= 1, when every leaf task ends, every run_task
\* of the outer call and of the calls made by its tasks ends, and every gather
\* is settled: no coroutine stays behind a gate.
C22_RunTerminates ==
  <>(/\ \A c \in Coros : Finished(c)
     /\ \A r \in 0..nr_total : nr_gather[r] # "pending")

\* with one slot per gate a nested run is over in which a task of the outer
\* call waited behind the outer gate and a child waited behind the gate of
\* its own invocation while its parent held the outer slot
C22_Witness ==
  /\ nr_workers = 1
  /\ nr_total = 2
  /\ nr_children = 2
  /\ \A c \in Coros : Finished(c)
  /\ Outer(2) \in nr_queued
  /\ Inner(1, 2) \in nr_queued
  /\ nr_gather[0] = "returned"

\* C31: a request that was admitted, followed by the completion with the same
\* uid and cid, leaves current_user as it was before the request, whatever
\* bot_set.anti_spam was at each of the two calls.
C31_AdmitThenRevokeRestores ==
  (/\ ~as_prev.revoke /\ as_prev.ret = "False"
   /\ as_call.revoke
   /\ as_call.uid = as_prev.uid /\ as_call.cid = as_prev.cid)
  => current_user = as_prev.before

(* ==================== properties: download_file, continued ============= *)
\* C32: download_file returns None only when one of its attempts got status
\* 200 and the whole body is in the destination; this for every value of
\* retries, 0 and negative ones included.
C32_NoneOnlyAfterSuccess ==
  (dl_pc = "returned" /\ dl_ret.kind = "None") =>
    /\ \E k \in DOMAIN dl_log : dl_log[k].status = 200 /\ dl_log[k].error = "None"
    /\ dl_file = "body"

\* C33: when download_file returns the failure of its last attempt, a network
\* error or a timeout, the destination does not hold a partly written body.
C33_NoPartialBodyOnFailure ==
  (dl_pc = "returned" /\ dl_ret.kind = "Failed after") => dl_file # "partial"

(* ================ properties: run_concurrent_tasks, continued ========== *)
\* C34: a run_task that ends by an exception gives its slot back: the free
\* slots plus the tasks inside the block are always MAX_WORKERS, the run is
\* never stuck with a task left behind the gate, and once every task is over
\* all MAX_WORKERS slots are free and nobody waits.
C34_FailureReleasesSlot ==
  /\ semaphore.value + Cardinality(Holding) = MAX_WORKERS
  /\ ~(ENABLED Next) => Len(done_order) = total
  /\ Len(done_order) = total =>
       /\ semaphore.value = MAX_WORKERS
       /\ semaphore.waiters = <<>>
       /\ \A i \in Tasks : pc[i] \in {"returned", "raised"}

\* with one slot, the first task raised and the two queued behind it were
\* admitted afterwards and returned
C34_Witness ==
  /\ MAX_WORKERS = 1
  /\ total = 3
  /\ pc = <<"raised", "returned", "returned">>
  /\ tasks[1].kind = "raise"
  /\ admitted = <<1, 2, 3>>
  /\ semaphore = NewSemaphore(1)

\* C35: the percentages are computed in non-decreasing order, the k-th
\* computed is floor(k * 100 / total), once for each k, and 100 is among them
\* exactly when every task has completed.
C35_PercentagesInOrder ==
  /\ Len(pg_shown) = pg_completed
  /\ \A k \in DOMAIN pg_shown : pg_shown[k] = (k * 100) \div pg_total
  /\ \A k, l \in DOMAIN pg_shown : k <= l => pg_shown[k] <= pg_shown[l]
  /\ (\E k \in DOMAIN pg_shown : pg_shown[k] = 100) <=>
       (pg_total > 0 /\ pg_completed = pg_total)

(* ============== properties: the orchestrators, continued =============== *)
\* e is in the log before position k
Before(e, k) == \E j \in 1..(k - 1) : up_log[j] = e

\* C36: nothing is removed before the call that delivers it was issued: a
\* track file after the send of the track, an archive after the send of the
\* document, a folder after the send of its archive or of its link message
\* or, when its children are delivered one by one, after the send of each.
C36_RemovedAfterDelivery ==
  \A k \in DOMAIN up_log :
    LET e == up_log[k]
    IN  /\ e.ev \in {"remove", "rmzip"} => Before(Ev("issue", e.by, e.a, e.t), k)
        /\ e.ev = "rmtree" =>
             IF up_cfg.UPLOAD_MODE = "Telegram" /\ ~Flag(e.by)
             THEN IF e.by = "artist_upload"
                  THEN \A b \in DOMAIN up_meta :
                         Before(Ev("rmtree", "album_upload", b, 0), k)
                  ELSE \A t \in 1..up_meta[e.a].tracks :
                         Before(Ev("issue", "track_upload", e.a, t), k)
             ELSE Before(Ev("issue", e.by, e.a, 0), k)

\* an artist of two albums, delivered track by track, is over: every track
\* file, both album folders and the artist folder were removed
C36_Witness ==
  /\ up_fn = "artist_upload"
  /\ up_pc = "returned"
  /\ up_cfg.UPLOAD_MODE = "Telegram"
  /\ ~up_cfg.ARTIST_ZIP /\ ~up_cfg.ALBUM_ZIP
  /\ Len(up_meta) = 2
  /\ \A a \in 1..2 : up_meta[a].tracks = 2
  /\ \A a \in 1..2 : \A t \in 1..2 : Times(Ev("remove", "track_upload", a, t)) = 1
  /\ Times(Ev("rmtree", "artist_upload", 0, 0)) = 1

====
